---- MODULE Spec2Model ----
(***************************************************************************)
(* A model of the extension acquisition and API-emulation pipeline of      *)
(* kispace-io/appspace:                                                     *)
(*   - VSIXLoader (src/src/dev-entry.ts) and the OpenVSXClient helpers it   *)
(*     uses (src/src/core/open-vsx/openvsx-client.ts),                      *)
(*   - VSCodeAPIAdapter (src/src/core/open-vsx/vscode-api-adapter.ts),      *)
(*   - GitHubExtensionLoader (src/src/core/github-install/).                *)
(* JavaScript strings are TLA+ strings; `undefined` is the value Undef.     *)
(* Every `await` of the code that other calls can interleave with is a      *)
(* separate step of a call slot.                                            *)
(***************************************************************************)
EXTENDS Integers, Sequences, FiniteSets, TLC

VARIABLES
    loadedExtensions,   \* VSIXLoader.loadedExtensions: Map<extensionId, LoadedVSIX>
    persisted,          \* persistenceService's objects: key -> persisted record
    calls,              \* the loader calls in flight, one record per call slot
    nextInst,           \* number of LoadedVSIX objects created so far (object identity)
    lastLoad,           \* history: per identifier, the last successful loadFromOpenVSX
    registry,           \* commandRegistry: command definitions and their handlers
    commandHandlers,    \* VSCodeAPIAdapter.commandHandlers: Map<commandId, callback>
    subscriptions,      \* extensionContext.subscriptions
    disposables,        \* every disposable created so far, in creation order (object identity)
    outcome,            \* what the last host-API call did (callbacks invoked, error thrown)
    gh,                 \* the discoverEntryPoint call in flight and the requests it made
    unpack,             \* a manifest and what the unpack step makes of it
    lookup,             \* a package and what getEntryPointCode returns for it
    client,             \* a descriptor and what getDownloadUrl returns for it
    parser              \* an identifier and what GitHubUrlParser makes of it

loaderVars == <<loadedExtensions, persisted, calls, nextInst, lastLoad>>
adapterVars == <<registry, commandHandlers, subscriptions, disposables, outcome>>
githubVars == <<gh>>
unpackVars == <<unpack>>
pureVars == <<lookup, client, parser>>
vars == <<loadedExtensions, persisted, calls, nextInst, lastLoad,
          registry, commandHandlers, subscriptions, disposables, outcome, gh, unpack,
          lookup, client, parser>>

-----------------------------------------------------------------------------
(* JavaScript values                                                       *)

\* The value `undefined` of an optional string (no string of the model equals it).
Undef == "<undefined>"

\* JavaScript truthiness of an optional string: neither undefined nor empty.
Truthy(s) == s # Undef /\ s # ""

\* A value inside a template literal: `${undefined}` is the text "undefined".
Str(s) == IF s = Undef THEN "undefined" ELSE s

\* a || b on optional strings.
OrElse(a, b) == IF Truthy(a) THEN a ELSE b

StartsWith(s, p) == Len(s) >= Len(p) /\ SubSeq(s, 1, Len(p)) = p

\* Map.get / Map.set / Map.has on a map held as a function with a finite domain.
Has(m, k) == k \in DOMAIN m
Put(m, k, v) == [x \in DOMAIN m \cup {k} |-> IF x = k THEN v ELSE m[x]]
Remove(m, k) == [x \in DOMAIN m \ {k} |-> m[x]]
EmptyMap == [x \in {} |-> Undef]

-----------------------------------------------------------------------------
(* OpenVSXClient                                                           *)

\* OpenVSXClient.baseUrl, after the constructor stripped a trailing slash.
baseUrl == "https://open-vsx.org/api"

getExtensionId(extension) ==
    Str(extension.namespace) \o "." \o Str(extension.name)

\* Mutant: the synthesized URL goes before the descriptor's own.
getDownloadUrlSynthesizedFirst(extension) ==
    IF Truthy(extension.namespace) /\ Truthy(extension.name) /\ Truthy(extension.version)
    THEN baseUrl \o "/" \o extension.namespace \o "/" \o extension.name \o "/"
         \o extension.version \o "/file/" \o extension.namespace \o "."
         \o extension.name \o "-" \o extension.version \o ".vsix"
    ELSE IF Truthy(extension.download) THEN extension.download
    ELSE Undef

\* Mutant: a URL is synthesized without looking at the version.
getDownloadUrlNoVersionCheck(extension) ==
    IF Truthy(extension.download)
    THEN extension.download
    ELSE IF Truthy(extension.namespace) /\ Truthy(extension.name)
         THEN baseUrl \o "/" \o extension.namespace \o "/" \o extension.name \o "/"
              \o Str(extension.version) \o "/file/" \o extension.namespace \o "."
              \o extension.name \o "-" \o Str(extension.version) \o ".vsix"
         ELSE Undef

getDownloadUrl(extension) ==
    IF Truthy(extension.download)
    THEN extension.download
    ELSE IF Truthy(extension.namespace) /\ Truthy(extension.name) /\ Truthy(extension.version)
         THEN baseUrl \o "/" \o extension.namespace \o "/" \o extension.name \o "/"
              \o extension.version \o "/file/" \o extension.namespace \o "."
              \o extension.name \o "-" \o extension.version \o ".vsix"
         ELSE Undef

-----------------------------------------------------------------------------
(* VSIXLoader: the unpack step (extractVSIX) as functions of the payload   *)

VSIX_STORAGE_PREFIX == "vsix_extensions/"

\* JSON.parse on the manifest texts of the model: each text below is the JSON
\* of the manifest beside it; any other text is not valid JSON.
ManifestJson ==
    [t \in {"{pub.ext@1.0 main}", "{ext@2.0 browser}"} |->
        IF t = "{pub.ext@1.0 main}"
        THEN [publisher |-> "pub", name |-> "ext", version |-> "1.0",
              main |-> "./out/main.js", browser |-> Undef, extensionKind |-> <<>>]
        ELSE [publisher |-> Undef, name |-> "ext", version |-> "2.0",
              main |-> Undef, browser |-> "./dist/web.js", extensionKind |-> <<"web">>]]

IsJson(text) == text \in DOMAIN ManifestJson
JSONParse(text) == ManifestJson[text]

\* zip.file("extension/package.json") || zip.file("package.json"): the path of
\* the manifest entry, Undef when the archive has neither.
ManifestEntry(blob) ==
    IF Has(blob.entries, "extension/package.json") THEN "extension/package.json"
    ELSE IF Has(blob.entries, "package.json") THEN "package.json"
    ELSE Undef

\* entryPoint.replace(/^\.\//, ''): one leading "./" is removed.
StripDotSlash(s) == IF StartsWith(s, "./") THEN SubSeq(s, 3, Len(s)) ELSE s

\* Mutant: the main field goes before the browser field.
EntryPointMainFirst(manifest) ==
    StripDotSlash(IF Truthy(manifest.main) THEN manifest.main
                  ELSE IF Truthy(manifest.browser) THEN manifest.browser
                  ELSE "extension.js")

\* extractVSIX lines 137-150.
EntryPointOf(manifest) ==
    StripDotSlash(IF Truthy(manifest.browser) THEN manifest.browser
                  ELSE IF Truthy(manifest.main) THEN manifest.main
                  ELSE "extension.js")

Includes(seq, x) == \E i \in 1..Len(seq) : seq[i] = x

\* Mutant: only a browser field makes a web extension.
isWebExtensionBrowserOnly(manifest) == Truthy(manifest.browser)

isWebExtension(manifest) ==
    IF Truthy(manifest.browser) THEN TRUE
    ELSE IF Includes(manifest.extensionKind, "web") \/ Includes(manifest.extensionKind, "ui")
    THEN TRUE
    ELSE IF ~Truthy(manifest.main) /\ ~Truthy(manifest.browser) THEN TRUE
    ELSE FALSE

\* The files map: every entry that is no directory and that one of the two
\* decoders could read (an entry both fail on has text Undef and is dropped).
ExtractFiles(blob) ==
    LET kept == {p \in DOMAIN blob.entries :
                    ~blob.entries[p].dir /\ blob.entries[p].text # Undef}
    IN  [p \in kept |-> blob.entries[p].text]

\* Why extractVSIX throws on this payload, "none" when it does not.
ExtractError(blob) ==
    IF ~blob.zip THEN "NotAnArchive"
    ELSE IF ManifestEntry(blob) = Undef THEN "ManifestMissing"
    ELSE IF ~IsJson(blob.entries[ManifestEntry(blob)].text) THEN "ManifestParseError"
    ELSE "none"

\* The LoadedVSIX object extractVSIX builds (lines 126-208); inst is the
\* identity of the new object.
BuildLoadedVSIX(blob, hasExt, extension, inst) ==
    LET manifest == JSONParse(blob.entries[ManifestEntry(blob)].text)
    IN  [manifest |-> manifest,
         extensionId |-> IF hasExt THEN getExtensionId(extension)
                         ELSE Str(OrElse(manifest.publisher, "unknown")) \o "."
                              \o Str(manifest.name),
         namespace |-> IF hasExt /\ Truthy(extension.namespace) THEN extension.namespace
                       ELSE OrElse(manifest.publisher, "unknown"),
         name |-> IF hasExt /\ Truthy(extension.name) THEN extension.name
                  ELSE manifest.name,
         version |-> IF hasExt /\ Truthy(extension.version) THEN extension.version
                     ELSE manifest.version,
         files |-> ExtractFiles(blob),
         entryPoint |-> EntryPointOf(manifest),
         isWebExtension |-> isWebExtension(manifest),
         inst |-> inst]

\* Mutant: the cache key leaves the version out.
CacheKeyNoVersion(extensionId, version) == VSIX_STORAGE_PREFIX \o Str(extensionId)

\* cacheVSIX line 223 and getCachedVSIX line 241: the key of a persisted record.
CacheKey(extensionId, version) ==
    VSIX_STORAGE_PREFIX \o Str(extensionId) \o "/" \o Str(version)

\* The object cacheVSIX hands to persistObject.
CacheRecord(loadedVSIX) ==
    [manifest |-> loadedVSIX.manifest,
     extensionId |-> loadedVSIX.extensionId,
     namespace |-> loadedVSIX.namespace,
     name |-> loadedVSIX.name,
     version |-> loadedVSIX.version,
     files |-> loadedVSIX.files,
     entryPoint |-> loadedVSIX.entryPoint,
     isWebExtension |-> loadedVSIX.isWebExtension]

\* The LoadedVSIX object getCachedVSIX builds from a persisted record: it
\* copies no isWebExtension.
FromCache(cached, inst) ==
    [manifest |-> cached.manifest,
     extensionId |-> cached.extensionId,
     namespace |-> cached.namespace,
     name |-> cached.name,
     version |-> cached.version,
     files |-> cached.files,
     entryPoint |-> cached.entryPoint,
     inst |-> inst]

-----------------------------------------------------------------------------
(* VSIXLoader: inputs of the model                                         *)

\* Number of LoadedVSIX objects one run creates.
MaxInst == 3

Calls == {"c1", "c2"}

\* Registry descriptors (OpenVSXExtension): two versions of pub.ext, one without
\* a version and one without a namespace that carry a download descriptor, and
\* three that lack an identity field and carry none.
Ext(ns, n, v, d) == [namespace |-> ns, name |-> n, version |-> v, download |-> d]

Descriptors ==
    {Ext("pub", "ext", "1.0", Undef), Ext("pub", "ext", "2.0", Undef),
     Ext("pub", "ext", Undef, "https://cdn/x.vsix"),
     Ext(Undef, "ext", "1.0", "https://cdn/x.vsix"),
     Ext(Undef, "ext", "1.0", Undef), Ext("pub", "", "1.0", Undef),
     Ext("pub", "ext", Undef, Undef)}

\* Descriptors handed to loadFromUrl next to a URL.
UrlDescriptors == {Ext("pub", "ext", "1.0", Undef)}

NoExt == Ext(Undef, Undef, Undef, Undef)

\* Payloads a download can deliver.
File(text) == [dir |-> FALSE, text |-> text]
Dir == [dir |-> TRUE, text |-> Undef]

BlobMain ==
    [zip |-> TRUE,
     entries |-> [p \in {"extension/", "extension/package.json", "extension/out/main.js"} |->
                    IF p = "extension/" THEN Dir
                    ELSE IF p = "extension/package.json" THEN File("{pub.ext@1.0 main}")
                    ELSE File("main code")]]
BlobBrowser ==
    [zip |-> TRUE,
     entries |-> [p \in {"package.json", "dist/web.js", "icon.png"} |->
                    IF p = "package.json" THEN File("{ext@2.0 browser}")
                    ELSE IF p = "dist/web.js" THEN File("web code")
                    ELSE File(Undef)]]
BlobNoManifest ==
    [zip |-> TRUE, entries |-> [p \in {"readme.md"} |-> File("read me")]]
BlobBadJson ==
    [zip |-> TRUE, entries |-> [p \in {"extension/package.json"} |-> File("{name:")]]
BlobNotZip == [zip |-> FALSE, entries |-> EmptyMap]

Blobs == {BlobMain, BlobBrowser, BlobNoManifest, BlobBadJson, BlobNotZip}

\* What fetch(url) answers: it rejects (transport error), or resolves with a
\* status that is ok or not, and a body.
Responses ==
    {[kind |-> "error", blob |-> BlobNotZip]}
    \cup {[kind |-> "status", blob |-> b] : b \in {BlobNotZip, BlobMain}}
    \cup {[kind |-> "ok", blob |-> b] : b \in Blobs}

NoResponse == [kind |-> "none", blob |-> BlobNotZip]

\* Arguments of getCachedVSIX.
CachedIds == {"pub.ext", "undefined.ext"}
CachedVersions == {"1.0", "2.0"}

NoPkg == [inst |-> 0]

\* A call slot nobody uses. History: role is "first" or "second" for the two
\* calls of an overlap; overtaken says that a call has written the in-memory
\* repository since this one started.
IdleCall ==
    [op |-> "none", pc |-> "idle", hasExt |-> FALSE, ext |-> NoExt,
     reqId |-> Undef, reqVer |-> Undef, resp |-> NoResponse,
     pkg |-> NoPkg, ret |-> "none", err |-> "none",
     fetched |-> FALSE, ioFailed |-> FALSE, wrote |-> FALSE,
     role |-> "none", overtaken |-> FALSE]

LoadOps == {"loadFromOpenVSX", "loadFromUrl"}

-----------------------------------------------------------------------------
(* VSIXLoader: the calls, step by step                                     *)

\* Mutant: the version of the entry is not compared.
CachedInMemoryAnyVersion(mem, extension) == Has(mem, getExtensionId(extension))

\* Mutant: the in-memory repository is never consulted.
CachedInMemoryNever(mem, extension) == FALSE

\* loadFromOpenVSX lines 83-84: the entry under the descriptor's identifier,
\* when its version is the descriptor's.
CachedInMemory(mem, extension) ==
    /\ Has(mem, getExtensionId(extension))
    /\ mem[getExtensionId(extension)].version = extension.version

\* Mutant: response.ok is not looked at.
HttpFailureNoStatusCheck(response) == response.kind = "error"

\* loadFromUrl lines 101-105: fetch rejected, or the status is not ok.
HttpFailure(response) == response.kind = "error" \/ response.kind = "status"

\* Mutant: the catch of cacheVSIX rethrows.
CacheVSIXRethrows(persistOk) == ~persistOk

\* cacheVSIX lines 222-236: whether it throws when persistObject did (persistOk
\* is FALSE): the catch swallows the error.
CacheVSIXThrows(persistOk) == FALSE

\* Mutant: the catch of getCachedVSIX rethrows.
GetCachedVSIXRethrows(readOk) == ~readOk

\* getCachedVSIX lines 240-260: whether it throws when getObject did.
GetCachedVSIXThrows(readOk) == FALSE

\* Mutant: a cache hit does not touch the in-memory repository.
RestoreLoadedNowhere(mem, extensionId, loadedVSIX) == mem

\* getCachedVSIX line 254: the in-memory repository after a cache hit stored its
\* result under the identifier asked for.
RestoreLoaded(mem, extensionId, loadedVSIX) == Put(mem, extensionId, loadedVSIX)

\* Mutant: the in-memory repository is keyed by identifier and version.
StoreLoadedPerVersion(mem, loadedVSIX) ==
    Put(mem, loadedVSIX.extensionId \o "@" \o Str(loadedVSIX.version), loadedVSIX)

\* Mutant: an entry of the same version is kept, the first load wins.
StoreLoadedFirstWins(mem, loadedVSIX) ==
    IF Has(mem, loadedVSIX.extensionId)
       /\ mem[loadedVSIX.extensionId].version = loadedVSIX.version
    THEN mem
    ELSE Put(mem, loadedVSIX.extensionId, loadedVSIX)

\* extractVSIX line 211: the in-memory repository after a load stored its result.
StoreLoaded(mem, loadedVSIX) == Put(mem, loadedVSIX.extensionId, loadedVSIX)

\* History: another load or cache hit of identifier id, of version ver, completed.
Superseded(ll, id, ver) ==
    IF ~Has(ll, id) THEN ll
    ELSE IF ll[id].ver # ver THEN Remove(ll, id)
    ELSE Put(ll, id, [ll[id] EXCEPT !.replaced = TRUE])

\* History: loadFromOpenVSX succeeded for a descriptor with this identifier and
\* version, returning the object inst.
Succeeded(ll, id, ver, inst) ==
    Put(ll, id, [ver |-> ver, inst |-> inst, replaced |-> FALSE])

Wrote(c) ==
    calls[c].wrote \/ loadedExtensions' # loadedExtensions \/ persisted' # persisted

\* The points at which a load is suspended before line 211 stores its result.
Suspended == {"downloading", "unpacking", "caching", "cached"}

\* History: the calls of loadFromOpenVSX for this identifier and version that
\* are suspended while a new one starts, nothing stored since they started.
InFlight(c, extension) ==
    {o \in Calls \ {c} :
        /\ calls[o].op = "loadFromOpenVSX"
        /\ calls[o].pc \in Suspended
        /\ ~calls[o].overtaken
        /\ getExtensionId(calls[o].ext) = getExtensionId(extension)
        /\ calls[o].ext.version = extension.version}

\* History: the call c starts as the second of an overlap.
StartOverlap(all, c, extension) ==
    [o \in Calls |->
        IF o = c /\ InFlight(c, extension) # {} THEN [all[o] EXCEPT !.role = "second"]
        ELSE IF o \in InFlight(c, extension) THEN [all[o] EXCEPT !.role = "first"]
        ELSE all[o]]

\* History: the call c has written the in-memory repository.
Overtake(all, c) ==
    [o \in Calls |->
        IF o # c /\ all[o].pc \in Suspended THEN [all[o] EXCEPT !.overtaken = TRUE]
        ELSE all[o]]

\* loadFromOpenVSX lines 82-95: serve from memory, fail for want of a download
\* URL, or download.
LoadDecision(mem, extension) ==
    IF CachedInMemory(mem, extension) THEN "memory"
    ELSE IF getDownloadUrl(extension) = Undef THEN "noUrl"
    ELSE "download"

LoadFromOpenVSX(c, extension) ==
    /\ calls[c].pc = "idle"
    /\ UNCHANGED <<loadedExtensions, persisted, nextInst>>
    /\ LET extensionId == getExtensionId(extension)
           decision == LoadDecision(loadedExtensions, extension)
           started == [IdleCall EXCEPT !.op = "loadFromOpenVSX", !.hasExt = TRUE,
                                       !.ext = extension]
       IN  IF decision = "memory"
           THEN /\ calls' = StartOverlap([calls EXCEPT ![c] =
                        [started EXCEPT !.pc = "done", !.ret = "pkg",
                                        !.pkg = loadedExtensions[extensionId]]],
                        c, extension)
                /\ lastLoad' = Succeeded(lastLoad, extensionId, extension.version,
                                         loadedExtensions[extensionId].inst)
           ELSE IF decision = "noUrl"
           THEN /\ calls' = StartOverlap([calls EXCEPT ![c] =
                        [started EXCEPT !.pc = "failed", !.err = "NoDownloadUrl"]],
                        c, extension)
                /\ UNCHANGED lastLoad
           ELSE /\ calls' = StartOverlap([calls EXCEPT ![c] =
                        [started EXCEPT !.pc = "downloading", !.fetched = TRUE]],
                        c, extension)
                /\ UNCHANGED lastLoad
    /\ UNCHANGED <<adapterVars, githubVars, unpackVars, pureVars>>

LoadFromUrl(c, hasExt, extension) ==
    /\ calls[c].pc = "idle"
    /\ calls' = [calls EXCEPT ![c] =
            [IdleCall EXCEPT !.op = "loadFromUrl", !.hasExt = hasExt, !.ext = extension,
                             !.pc = "downloading", !.fetched = TRUE]]
    /\ UNCHANGED <<loadedExtensions, persisted, nextInst, lastLoad>>
    /\ UNCHANGED <<adapterVars, githubVars, unpackVars, pureVars>>

FetchDone(c, response) ==
    /\ calls[c].pc = "downloading"
    /\ calls' = [calls EXCEPT ![c] =
            IF HttpFailure(response)
            THEN [@ EXCEPT !.resp = response, !.pc = "failed", !.err = "DownloadFailed"]
            ELSE [@ EXCEPT !.resp = response, !.pc = "unpacking"]]
    /\ UNCHANGED <<loadedExtensions, persisted, nextInst, lastLoad>>
    /\ UNCHANGED <<adapterVars, githubVars, unpackVars, pureVars>>

Extract(c) ==
    /\ calls[c].pc = "unpacking"
    /\ LET blob == calls[c].resp.blob
       IN  IF ExtractError(blob) # "none"
           THEN /\ calls' = [calls EXCEPT ![c] =
                        [@ EXCEPT !.pc = "failed", !.err = ExtractError(blob)]]
                /\ UNCHANGED nextInst
           ELSE /\ nextInst < MaxInst
                /\ nextInst' = nextInst + 1
                /\ calls' = [calls EXCEPT ![c] =
                        [@ EXCEPT !.pc = "caching",
                                  !.pkg = BuildLoadedVSIX(blob, calls[c].hasExt,
                                                          calls[c].ext, nextInst + 1)]]
    /\ UNCHANGED <<loadedExtensions, persisted, lastLoad>>
    /\ UNCHANGED <<adapterVars, githubVars, unpackVars, pureVars>>

Persist(c, persistOk) ==
    /\ calls[c].pc = "caching"
    /\ LET loadedVSIX == calls[c].pkg
       IN  persisted' =
             IF persistOk
             THEN Put(persisted, CacheKey(loadedVSIX.extensionId, loadedVSIX.version),
                      CacheRecord(loadedVSIX))
             ELSE persisted
    /\ UNCHANGED loadedExtensions
    /\ calls' = [calls EXCEPT ![c] =
            IF CacheVSIXThrows(persistOk)
            THEN [@ EXCEPT !.pc = "failed", !.err = "CacheWriteFailed",
                           !.ioFailed = TRUE, !.wrote = Wrote(c)]
            ELSE [@ EXCEPT !.pc = "cached", !.ioFailed = ~persistOk,
                           !.wrote = Wrote(c)]]
    /\ UNCHANGED <<nextInst, lastLoad>>
    /\ UNCHANGED <<adapterVars, githubVars, unpackVars, pureVars>>

Finish(c) ==
    /\ calls[c].pc = "cached"
    /\ LET loadedVSIX == calls[c].pkg
       IN  /\ loadedExtensions' = StoreLoaded(loadedExtensions, loadedVSIX)
           /\ lastLoad' =
                LET ll == Superseded(lastLoad, loadedVSIX.extensionId, loadedVSIX.version)
                IN  IF calls[c].op = "loadFromOpenVSX"
                    THEN Succeeded(ll, loadedVSIX.extensionId, calls[c].ext.version,
                                   loadedVSIX.inst)
                    ELSE ll
    /\ UNCHANGED persisted
    /\ calls' = Overtake([calls EXCEPT ![c] =
            [@ EXCEPT !.pc = "done", !.ret = "pkg", !.wrote = Wrote(c)]], c)
    /\ UNCHANGED nextInst
    /\ UNCHANGED <<adapterVars, githubVars, unpackVars, pureVars>>

GetCachedVSIX(c, extensionId, version) ==
    /\ calls[c].pc = "idle"
    /\ calls' = [calls EXCEPT ![c] =
            [IdleCall EXCEPT !.op = "getCachedVSIX", !.pc = "reading",
                             !.reqId = extensionId, !.reqVer = version]]
    /\ UNCHANGED <<loadedExtensions, persisted, nextInst, lastLoad>>
    /\ UNCHANGED <<adapterVars, githubVars, unpackVars, pureVars>>

ReadDone(c, readOk) ==
    /\ calls[c].pc = "reading"
    /\ LET cacheKey == CacheKey(calls[c].reqId, calls[c].reqVer)
       IN  IF readOk /\ Has(persisted, cacheKey)
           THEN LET loadedVSIX == FromCache(persisted[cacheKey], nextInst + 1)
                IN  /\ nextInst < MaxInst
                    /\ nextInst' = nextInst + 1
                    /\ loadedExtensions' =
                          RestoreLoaded(loadedExtensions, calls[c].reqId, loadedVSIX)
                    /\ lastLoad' = Superseded(lastLoad, calls[c].reqId, calls[c].reqVer)
                    /\ UNCHANGED persisted
                    /\ calls' = Overtake([calls EXCEPT ![c] =
                            [@ EXCEPT !.pc = "done", !.ret = "pkg", !.pkg = loadedVSIX,
                                      !.wrote = Wrote(c)]], c)
           ELSE /\ UNCHANGED <<loadedExtensions, persisted, nextInst, lastLoad>>
                /\ calls' = [calls EXCEPT ![c] =
                        IF ~readOk /\ GetCachedVSIXThrows(readOk)
                        THEN [@ EXCEPT !.pc = "failed", !.err = "CacheReadFailed",
                                       !.ioFailed = TRUE]
                        ELSE [@ EXCEPT !.pc = "done", !.ret = "null",
                                       !.ioFailed = ~readOk]]
    /\ UNCHANGED <<adapterVars, githubVars, unpackVars, pureVars>>

\* A new VSIXLoader (line 79, line 359: the page was loaded again): its in-memory
\* repository is empty, the persisted objects are those of before.
NewLoader ==
    /\ \A c \in Calls : calls[c].pc = "idle"
    /\ loadedExtensions # EmptyMap
    /\ loadedExtensions' = EmptyMap
    /\ lastLoad' = EmptyMap
    /\ UNCHANGED <<persisted, calls, nextInst>>
    /\ UNCHANGED <<adapterVars, githubVars, unpackVars, pureVars>>

\* The caller took the result (or the error): the slot is free again.
Return(c) ==
    /\ calls[c].pc \in {"done", "failed"}
    /\ calls' = [calls EXCEPT ![c] = IdleCall]
    /\ UNCHANGED <<loadedExtensions, persisted, nextInst, lastLoad>>
    /\ UNCHANGED <<adapterVars, githubVars, unpackVars, pureVars>>

LoaderInit ==
    /\ loadedExtensions = EmptyMap
    /\ persisted = EmptyMap
    /\ calls = [c \in Calls |-> IdleCall]
    /\ nextInst = 0
    /\ lastLoad = EmptyMap

-----------------------------------------------------------------------------
(* VSCodeAPIAdapter: inputs of the model                                   *)

\* Number of disposables one run creates.
MaxDisposables == 3

CommandIds == {"ext.hello", "ext.bye"}

\* Values an extension passes as callback: two functions, undefined, null and
\* a value that is no function.
Null == "<null>"
Functions == {"callbackA", "callbackB"}
CallbackValues == Functions \cup {Undef, Null, "not a function"}
ThisArgs == {"self"}
ArgLists == {<<"x", "y">>}

NoOutcome ==
    [op |-> "none", id |-> Undef, args |-> <<>>, log |-> <<>>, ids |-> {}, err |-> "none"]

-----------------------------------------------------------------------------
(* commandRegistry: the shared command registry the adapter registers with *)

\* A command definition with no handler yet.
RegistryRegisterCommand(reg, commandId) == Put(reg, commandId, <<>>)

RegistryHasCommand(reg, commandId) == Has(reg, commandId)

\* One more handler of the command; the handler registered last is in force.
RegistryRegisterHandler(reg, commandId, handler) ==
    Put(reg, commandId, Append(IF Has(reg, commandId) THEN reg[commandId] ELSE <<>>, handler))

\* The handler execute(commandId, context) runs.
RegistryHandler(reg, commandId) == reg[commandId][Len(reg[commandId])]

-----------------------------------------------------------------------------
(* VSCodeAPIAdapter: the emulated host API                                 *)

\* registerCommand line 56: callback.toString() throws on undefined and null.
ToStringThrows(callback) == callback \in {Undef, Null}

\* registerCommand line 58: typeof callback !== 'function'.
IsFunction(callback) == callback \in Functions

\* Mutant: the handler is registered only together with a new command definition.
RegisterWithRegistryOnce(reg, commandId, handler) ==
    IF ~RegistryHasCommand(reg, commandId)
    THEN RegistryRegisterHandler(RegistryRegisterCommand(reg, commandId), commandId, handler)
    ELSE reg

\* registerCommand lines 79-88: the command definition is created when the
\* registry has none, and the handler is registered in either case.
RegisterWithRegistry(reg, commandId, handler) ==
    RegistryRegisterHandler(
        IF ~RegistryHasCommand(reg, commandId)
        THEN RegistryRegisterCommand(reg, commandId)
        ELSE reg,
        commandId, handler)

\* Mutant: the handler passes no arguments on.
HandlerArgsNone(context) == <<>>

\* The handler's execute, line 68: the positional arguments it passes on are
\* Object.values(context.params), the params in index order.
HandlerArgs(context) == context.params

\* The handler's execute, line 69: callback.apply(thisArg, args).
RunHandler(handler, context) ==
    [callback |-> handler.callback, thisArg |-> handler.thisArg,
     args |-> HandlerArgs(context)]

\* Mutant: the disposable of registerCommand leaves the local index alone.
DisposeCommandKeeps(handlers, commandId) == handlers

\* The disposable of registerCommand, lines 91-96: what its dispose leaves of
\* the local handler index.
DisposeCommand(handlers, commandId) ==
    IF Has(handlers, commandId) THEN Remove(handlers, commandId) ELSE handlers

\* dispose() of the disposable d on the local handler index.
DisposeOne(handlers, d) ==
    IF disposables[d].kind = "command"
    THEN DisposeCommand(handlers, disposables[d].commandId)
    ELSE handlers

\* Mutant: the disposable also takes the command out of the shared registry.
DisposeUnregisters(reg, commandId) ==
    IF Has(reg, commandId) THEN Remove(reg, commandId) ELSE reg

\* The disposable of registerCommand, lines 91-96: what its dispose leaves of
\* the shared registry. It makes no call of commandRegistry.
DisposeLeavesRegistry(reg, commandId) == reg

\* dispose() of the disposable d on the shared registry.
DisposeOneRegistry(reg, d) ==
    IF disposables[d].kind = "command"
    THEN DisposeLeavesRegistry(reg, disposables[d].commandId)
    ELSE reg

\* History: the disposables of the set ds have had dispose() called.
MarkDisposed(all, ds) ==
    [i \in 1..Len(all) |-> IF i \in ds THEN [all[i] EXCEPT !.disposed = TRUE] ELSE all[i]]

\* Mutant: an error of a disposal leaves the loop.
DisposeErrorEscapes(thrown) == thrown

\* VSCodeAPIAdapter.dispose lines 241-245: whether an error thrown by
\* subscription.dispose() leaves the loop; the catch keeps every error in.
DisposeErrorLeaves(thrown) == FALSE

RECURSIVE DisposeLoop(_, _, _, _)
\* VSCodeAPIAdapter.dispose lines 240-246: the subscriptions in list order, each
\* inside its own try/catch. log is the disposals invoked so far.
DisposeLoop(subs, handlers, reg, log) ==
    IF subs = <<>>
    THEN [handlers |-> handlers, registry |-> reg, log |-> log, err |-> "none"]
    ELSE LET d == Head(subs)
             h == DisposeOne(handlers, d)
             r == DisposeOneRegistry(reg, d)
         IN  IF DisposeErrorLeaves(disposables[d].throws)
             THEN [handlers |-> h, registry |-> r, log |-> Append(log, d), err |-> "Error"]
             ELSE DisposeLoop(Tail(subs), h, r, Append(log, d))

\* Mutant: the loop ends after the first subscription.
DisposeAllFirstOnly(subs, handlers) ==
    IF subs = <<>> THEN handlers ELSE DisposeOne(handlers, Head(subs))

\* The local handler index VSCodeAPIAdapter.dispose leaves.
DisposeAll(subs, handlers) == DisposeLoop(subs, handlers, registry, <<>>).handlers

\* commands.getCommands: the keys of the local handler index.
getCommands(handlers) == DOMAIN handlers

\* Mutant: the disposable goes to the front of the list.
PushFront(subs, d) == <<d>> \o subs

\* subscriptions.push(disposable), lines 97, 133 and 215.
Push(subs, d) == Append(subs, d)

RegisterCommand(commandId, callback, thisArg) ==
    /\ Len(disposables) < MaxDisposables
    /\ IF ToStringThrows(callback)
       THEN /\ outcome' = [NoOutcome EXCEPT !.op = "registerCommand", !.id = commandId,
                                            !.err = "TypeError"]
            /\ UNCHANGED <<registry, commandHandlers, subscriptions, disposables>>
       ELSE IF ~IsFunction(callback)
       THEN /\ outcome' = [NoOutcome EXCEPT !.op = "registerCommand", !.id = commandId,
                                            !.err = "InvalidCallback"]
            /\ UNCHANGED <<registry, commandHandlers, subscriptions, disposables>>
       ELSE LET handler == [callback |-> callback, thisArg |-> thisArg]
                disposable == [kind |-> "command", commandId |-> commandId,
                               callback |-> callback, thisArg |-> thisArg,
                               throws |-> FALSE, disposed |-> FALSE]
            IN  /\ registry' = RegisterWithRegistry(registry, commandId, handler)
                /\ commandHandlers' = Put(commandHandlers, commandId, callback)
                /\ disposables' = Append(disposables, disposable)
                /\ subscriptions' = Push(subscriptions, Len(disposables) + 1)
                /\ outcome' = [NoOutcome EXCEPT !.op = "registerCommand", !.id = commandId]
    /\ UNCHANGED <<loaderVars, githubVars, unpackVars, pureVars>>

\* executeCommand of a command the registry has a handler for.
ExecuteCommand(commandId, args) ==
    /\ RegistryHasCommand(registry, commandId)
    /\ registry[commandId] # <<>>
    /\ outcome' = [NoOutcome EXCEPT
            !.op = "executeCommand", !.id = commandId, !.args = args,
            !.log = <<RunHandler(RegistryHandler(registry, commandId), [params |-> args])>>]
    /\ UNCHANGED <<registry, commandHandlers, subscriptions, disposables>>
    /\ UNCHANGED <<loaderVars, githubVars, unpackVars, pureVars>>

\* workspace.onDidChangeConfiguration and window.onDidChangeActiveTextEditor.
OnDidChange(api) ==
    /\ Len(disposables) < MaxDisposables
    /\ disposables' = Append(disposables,
            [kind |-> "listener", commandId |-> Undef, callback |-> Undef,
             thisArg |-> Undef, throws |-> FALSE, disposed |-> FALSE])
    /\ subscriptions' = Push(subscriptions, Len(disposables) + 1)
    /\ outcome' = [NoOutcome EXCEPT !.op = api]
    /\ UNCHANGED <<registry, commandHandlers>>
    /\ UNCHANGED <<loaderVars, githubVars, unpackVars, pureVars>>

\* The extension pushes a disposable of its own to context.subscriptions.
PushOwn(throws) ==
    /\ Len(disposables) < MaxDisposables
    /\ disposables' = Append(disposables,
            [kind |-> "own", commandId |-> Undef, callback |-> Undef,
             thisArg |-> Undef, throws |-> throws, disposed |-> FALSE])
    /\ subscriptions' = Push(subscriptions, Len(disposables) + 1)
    /\ outcome' = [NoOutcome EXCEPT !.op = "push"]
    /\ UNCHANGED <<registry, commandHandlers>>
    /\ UNCHANGED <<loaderVars, githubVars, unpackVars, pureVars>>

\* The extension calls dispose() on a disposable an API call returned to it.
\* History: whether it was disposed before, and the handler index before.
DisposeReturned(d) ==
    /\ disposables[d].kind # "own"
    /\ commandHandlers' = DisposeOne(commandHandlers, d)
    /\ registry' = DisposeOneRegistry(registry, d)
    /\ disposables' = MarkDisposed(disposables, {d})
    /\ outcome' = [NoOutcome EXCEPT
            !.op = "disposable.dispose", !.id = disposables[d].commandId, !.log = <<d>>,
            !.args = <<IF disposables[d].disposed THEN "repeated" ELSE "first">>,
            !.ids = getCommands(commandHandlers)]
    /\ UNCHANGED subscriptions
    /\ UNCHANGED <<loaderVars, githubVars, unpackVars, pureVars>>

\* What a document or file argument is: a string, or a URI-shaped object with
\* fsPath or with path.
Uris ==
    {[kind |-> "string", text |-> "src/a.ts", fsPath |-> Undef, path |-> Undef],
     [kind |-> "uri", text |-> Undef, fsPath |-> "src/a.ts", path |-> "/other"],
     [kind |-> "uri", text |-> Undef, fsPath |-> Undef, path |-> "docs"]}

\* What the filesystem collaborator answers: an active workspace or none, and
\* for the path no resource, a directory or a file.
Workspaces == {"none", "workspace"}
Resources == {"none", "directory", "file"}

\* openTextDocument lines 139-141; readFile line 164 gives the same path for
\* the arguments of the model.
FileNameOf(uri) == IF uri.kind = "string" THEN uri.text ELSE OrElse(uri.fsPath, uri.path)

\* Mutant: every resource the workspace has counts as a file.
ResolveFileAnyResource(workspace, resource) ==
    IF workspace = "none"
    THEN [err |-> "NoWorkspace", calls |-> <<"getWorkspace">>]
    ELSE IF resource = "none"
    THEN [err |-> "FileNotFound", calls |-> <<"getWorkspace", "getResource">>]
    ELSE [err |-> "none", calls |-> <<"getWorkspace", "getResource">>]

\* Lines 143-150 and 165-174: the calls of the collaborator and the error, if
\* any: no workspace, then no file at the path.
ResolveFile(workspace, resource) ==
    IF workspace = "none"
    THEN [err |-> "NoWorkspace", calls |-> <<"getWorkspace">>]
    ELSE IF resource # "file"
    THEN [err |-> "FileNotFound", calls |-> <<"getWorkspace", "getResource">>]
    ELSE [err |-> "none", calls |-> <<"getWorkspace", "getResource">>]

\* workspace.openTextDocument and workspace.fs.readFile.
OpenOrRead(api, uri, workspace, resource) ==
    /\ outcome' = [NoOutcome EXCEPT
            !.op = api, !.id = FileNameOf(uri), !.args = <<workspace, resource>>,
            !.log = ResolveFile(workspace, resource).calls,
            !.err = ResolveFile(workspace, resource).err]
    /\ UNCHANGED <<registry, commandHandlers, subscriptions, disposables>>
    /\ UNCHANGED <<loaderVars, githubVars, unpackVars, pureVars>>

\* commands.getCommands().
GetCommands ==
    /\ outcome' = [NoOutcome EXCEPT !.op = "getCommands",
                                    !.ids = getCommands(commandHandlers)]
    /\ UNCHANGED <<registry, commandHandlers, subscriptions, disposables>>
    /\ UNCHANGED <<loaderVars, githubVars, unpackVars, pureVars>>

\* VSCodeAPIAdapter.dispose.
AdapterDispose ==
    LET done == DisposeLoop(subscriptions, commandHandlers, registry, <<>>)
    IN  /\ commandHandlers' = DisposeAll(subscriptions, commandHandlers)
        /\ registry' = done.registry
        /\ disposables' = MarkDisposed(disposables, {done.log[i] : i \in 1..Len(done.log)})
        \* line 247 is reached when the loop was not left by an error
        /\ subscriptions' = IF done.err = "none" THEN <<>> ELSE subscriptions
        /\ outcome' = [NoOutcome EXCEPT !.op = "dispose", !.log = done.log,
                                        !.err = done.err]
        /\ UNCHANGED <<loaderVars, githubVars, unpackVars, pureVars>>

AdapterInit ==
    /\ registry = EmptyMap
    /\ commandHandlers = EmptyMap
    /\ subscriptions = <<>>
    /\ disposables = <<>>
    /\ outcome = NoOutcome

NextAdapter ==
    \/ \E commandId \in CommandIds, callback \in CallbackValues, thisArg \in ThisArgs :
            RegisterCommand(commandId, callback, thisArg)
    \/ \E commandId \in CommandIds, args \in ArgLists : ExecuteCommand(commandId, args)
    \/ \E api \in {"onDidChangeConfiguration", "onDidChangeActiveTextEditor"} :
            OnDidChange(api)
    \/ \E throws \in BOOLEAN : PushOwn(throws)
    \/ \E d \in 1..Len(disposables) : DisposeReturned(d)
    \/ GetCommands
    \/ AdapterDispose

-----------------------------------------------------------------------------
(* GitHubExtensionLoader: entry-point discovery                            *)

ESM_SH_BASE == "https://esm.sh"
GITHUB_API_BASE == "https://api.github.com"

ENTRY_POINTS ==
    <<"index.ts", "index.tsx", "extension.ts", "extension.tsx",
      "index.js", "extension.js", "main.js">>

EndsWith(s, suffix) ==
    Len(s) >= Len(suffix) /\ SubSeq(s, Len(s) - Len(suffix) + 1, Len(s)) = suffix

IsTypeScript(path) == EndsWith(path, ".ts") \/ EndsWith(path, ".tsx")

toEsmShUrl(parsed, path) ==
    LET ref == OrElse(parsed.ref, "main")
        fullPath == IF StartsWith(path, "/") THEN SubSeq(path, 2, Len(path)) ELSE path
    IN  ESM_SH_BASE \o "/gh/" \o Str(parsed.owner) \o "/" \o Str(parsed.repo)
            \o "@" \o ref \o "/" \o fullPath

EntryPoint(parsed, path, cdnUrl) ==
    [path |-> path, isTypeScript |-> IsTypeScript(path), cdnUrl |-> cdnUrl]

PackageJsonUrl(parsed) ==
    GITHUB_API_BASE \o "/repos/" \o Str(parsed.owner) \o "/" \o Str(parsed.repo)
        \o "/contents/package.json?ref=" \o OrElse(parsed.ref, "main")

\* The identifiers resolved: with and without ref, with and without a path (the
\* parser gives the path "" for an identifier that ends in "/").
ParsedUrls ==
    [owner : {"kispace"}, repo : {"ext"}, ref : {Undef, "v1"},
     path : {Undef, "", "src/ext.ts"}]

\* atob on the contents the API answers with; no entry: atob throws.
Atob ==
    [x \in {"e30=", "bnVsbA==", "eyJtYWluIjoib3V0L2V4dC5qcyJ9",
            "eyJtYWluIjoiIn0=", "eyJtYWluIjo0Mn0=", "eyJtYWluIjo="} |->
        CASE x = "e30=" -> "{}"
          [] x = "bnVsbA==" -> "null"
          [] x = "eyJtYWluIjoib3V0L2V4dC5qcyJ9" -> "{\"main\":\"out/ext.js\"}"
          [] x = "eyJtYWluIjoiIn0=" -> "{\"main\":\"\"}"
          [] x = "eyJtYWluIjo0Mn0=" -> "{\"main\":42}"
          [] x = "eyJtYWluIjo=" -> "{\"main\":"]

\* A JSON value of a main field: a string or a number; JsonUndefined for the
\* field that is not there.
JsonString(v) == [type |-> "string", value |-> v]
JsonNumber(v) == [type |-> "number", value |-> v]
JsonUndefined == [type |-> "undefined", value |-> Undef]
JsonObject(fields) == [kind |-> "object", fields |-> fields]
JsonNull == [kind |-> "null", fields |-> EmptyMap]

\* JSON.parse on the decoded texts; no entry: JSON.parse throws.
PackageJson ==
    [x \in {"{}", "null", "{\"main\":\"out/ext.js\"}", "{\"main\":\"\"}", "{\"main\":42}"} |->
        CASE x = "{}" -> JsonObject(EmptyMap)
          [] x = "null" -> JsonNull
          [] x = "{\"main\":\"out/ext.js\"}" -> JsonObject(Put(EmptyMap, "main", JsonString("out/ext.js")))
          [] x = "{\"main\":\"\"}" -> JsonObject(Put(EmptyMap, "main", JsonString("")))
          [] x = "{\"main\":42}" -> JsonObject(Put(EmptyMap, "main", JsonNumber("42")))]

\* What the source-hosting API answers: a transport error, a status that is no
\* success, a body that is no JSON, or a JSON body with or without content.
ApiData(content, encoding) == [content |-> content, encoding |-> encoding]
ApiResponse(kind, data) == [kind |-> kind, data |-> data]
NoData == ApiData(Undef, Undef)
ApiResponses ==
    {ApiResponse("error", NoData), ApiResponse("status", NoData),
     ApiResponse("notJson", NoData), ApiResponse("ok", NoData),
     ApiResponse("ok", ApiData("eyJtYWluIjoib3V0L2V4dC5qcyJ9", "utf-8")),
     ApiResponse("ok", ApiData("%%%", "base64"))}
    \cup {ApiResponse("ok", ApiData(c, "base64")) : c \in DOMAIN Atob}

NoPackageJson == JsonNull

\* fetchPackageJson: the package descriptor, or null.
fetchPackageJson(response) ==
    IF response.kind \in {"error", "status", "notJson"} THEN NoPackageJson
    ELSE IF Truthy(response.data.content) /\ response.data.encoding = "base64"
    THEN IF response.data.content \notin DOMAIN Atob THEN NoPackageJson
         ELSE IF Atob[response.data.content] \notin DOMAIN PackageJson THEN NoPackageJson
         ELSE PackageJson[Atob[response.data.content]]
    ELSE NoPackageJson

\* packageJson?.main
MainOf(packageJson) ==
    IF packageJson.kind = "null" THEN JsonUndefined
    ELSE IF Has(packageJson.fields, "main") THEN packageJson.fields["main"]
    ELSE JsonUndefined

\* Mutant: the main field is never looked at.
MainTruthyNever(main) == FALSE

\* if (packageJson?.main), line 47: a string that is not empty, or a number
\* that is not 0.
MainTruthy(main) ==
    /\ main.type # "undefined"
    /\ main.type = "string" => main.value # ""
    /\ main.type = "number" => main.value # "0"

\* mainPath.endsWith of line 49 is a TypeError when main is no string; the
\* catch of line 58 takes it.
MainThrows(main) == main.type # "string"

\* Mutant: a probe that ends in a transport error ends the resolution.
ProbeErrorAborts(response) == response = "error"

\* Lines 63-77: whether the error of a probe leaves the loop; the catch of
\* line 75 keeps it in.
ProbeErrorLeaves(response) == FALSE

\* What an existence probe answers: success, another status, a transport error.
ProbeResponses == {"ok", "status", "error"}

Request(method, url) == [method |-> method, url |-> url, outcome |-> "pending"]

\* The request made last has been answered.
Answered(requests, answer) ==
    [requests EXCEPT ![Len(requests)] = [@ EXCEPT !.outcome = answer]]

NoParsed == [owner |-> Undef, repo |-> Undef, ref |-> Undef, path |-> Undef]
NoEntryPoint == [path |-> Undef, isTypeScript |-> FALSE, cdnUrl |-> Undef]

IdleResolution ==
    [pc |-> "idle", parsed |-> NoParsed, requests |-> <<>>, main |-> JsonUndefined,
     result |-> NoEntryPoint, err |-> "none"]

\* The existence probes made so far.
Probes(requests) == {i \in 1..Len(requests) : requests[i].method = "HEAD"}

\* Lines 62-65: the probe of the next conventional name.
NextProbe(parsed, requests) ==
    Append(requests,
           Request("HEAD", toEsmShUrl(parsed, ENTRY_POINTS[Cardinality(Probes(requests)) + 1])))

\* discoverEntryPoint up to its first await.
DiscoverEntryPoint(parsed) ==
    /\ gh.pc = "idle"
    /\ gh' = IF Truthy(parsed.path)
             THEN [IdleResolution EXCEPT
                    !.pc = "done", !.parsed = parsed,
                    !.result = EntryPoint(parsed, parsed.path, toEsmShUrl(parsed, parsed.path))]
             ELSE [IdleResolution EXCEPT
                    !.pc = "descriptor", !.parsed = parsed,
                    !.requests = <<Request("GET", PackageJsonUrl(parsed))>>]
    /\ UNCHANGED <<loaderVars, adapterVars, unpackVars, pureVars>>

\* The source-hosting API has answered: lines 46-62.
DescriptorDone(response) ==
    /\ gh.pc = "descriptor"
    /\ LET main == MainOf(fetchPackageJson(response))
           requests == Answered(gh.requests, response.kind)
       IN  gh' = IF MainTruthy(main) /\ ~MainThrows(main)
                 THEN [gh EXCEPT
                        !.pc = "done", !.main = main, !.requests = requests,
                        !.result = EntryPoint(gh.parsed, main.value,
                                              toEsmShUrl(gh.parsed, main.value))]
                 ELSE [gh EXCEPT
                        !.pc = "probing", !.main = main,
                        !.requests = NextProbe(gh.parsed, requests)]
    /\ UNCHANGED <<loaderVars, adapterVars, unpackVars, pureVars>>

\* An existence probe has been answered: lines 65-83.
ProbeDone(response) ==
    /\ gh.pc = "probing"
    /\ LET requests == Answered(gh.requests, response)
           tried == Cardinality(Probes(gh.requests))
       IN  gh' = IF response = "ok"
                 THEN [gh EXCEPT
                        !.pc = "done", !.requests = requests,
                        !.result = EntryPoint(gh.parsed, ENTRY_POINTS[tried],
                                              gh.requests[Len(gh.requests)].url)]
                 ELSE IF ProbeErrorLeaves(response)
                 THEN [gh EXCEPT !.pc = "failed", !.requests = requests, !.err = "Error"]
                 ELSE IF tried < Len(ENTRY_POINTS)
                 THEN [gh EXCEPT !.requests = NextProbe(gh.parsed, requests)]
                 ELSE [gh EXCEPT !.pc = "failed", !.requests = requests,
                                 !.err = "EntryPointNotFound"]
    /\ UNCHANGED <<loaderVars, adapterVars, unpackVars, pureVars>>

\* The caller has the entry point or the error; the next resolution starts anew.
ReturnEntryPoint ==
    /\ gh.pc \in {"done", "failed"}
    /\ gh' = IdleResolution
    /\ UNCHANGED <<loaderVars, adapterVars, unpackVars, pureVars>>

GitHubInit == gh = IdleResolution

-----------------------------------------------------------------------------
(* VSIXLoader: getEntryPointCode                                           *)

\* Number of files of a package whose entry point is looked up.
MaxFiles == 2

Contains(s, sub) ==
    \E i \in 1..(Len(s) - Len(sub) + 1) : SubSeq(s, i, i + Len(sub) - 1) = sub

\* The files of a package in the order of the Map: path and content.
CatalogedFile(path, content) == [path |-> path, content |-> content]

\* loadedVSIX.files.get(path): the content, Undef for a path not cataloged.
FilesGet(files, path) ==
    LET hits == {i \in 1..Len(files) : files[i].path = path}
    IN  IF hits = {} THEN Undef ELSE files[CHOOSE i \in hits : TRUE].content

\* Mutant: the archive root and out/ go before the namespaced root.
possiblePathsRootFirst(entryPoint) ==
    <<entryPoint, "extension/" \o entryPoint, "out/" \o entryPoint,
      "extension/out/" \o entryPoint, "extension/extension/" \o entryPoint,
      "browser/" \o entryPoint, "extension/browser/" \o entryPoint>>

\* getEntryPointCode lines 274-282.
possiblePaths(entryPoint) ==
    <<"extension/" \o entryPoint, entryPoint, "extension/out/" \o entryPoint,
      "out/" \o entryPoint, "extension/extension/" \o entryPoint,
      "extension/browser/" \o entryPoint, "browser/" \o entryPoint>>

RECURSIVE FirstCode(_, _)
\* Lines 284-291: the content of the first of the paths whose content is truthy.
FirstCode(files, paths) ==
    IF paths = <<>> THEN Undef
    ELSE IF Truthy(FilesGet(files, Head(paths))) THEN FilesGet(files, Head(paths))
    ELSE FirstCode(files, Tail(paths))

\* Lines 297-302: the test of the second pass.
Matches(path, entryPoint) ==
    \/ EndsWith(path, entryPoint)
    \/ EndsWith(path, "/" \o entryPoint)
    \/ Contains(path, "/" \o entryPoint)
    \/ path = entryPoint

matchingFiles(files, entryPoint) ==
    SelectSeq(files, LAMBDA f : Matches(f.path, entryPoint))

\* Lines 268-270.
LookedUp(loadedVSIX) == StripDotSlash(OrElse(loadedVSIX.entryPoint, "extension.js"))

\* getEntryPointCode: the code, Null when it returns null.
getEntryPointCode(loadedVSIX) ==
    LET entryPoint == LookedUp(loadedVSIX)
        code == FirstCode(loadedVSIX.files, possiblePaths(entryPoint))
        matching == matchingFiles(loadedVSIX.files, entryPoint)
    IN  IF Truthy(code) THEN code
        ELSE IF matching # <<>> /\ Truthy(matching[1].content) THEN matching[1].content
        ELSE Null

\* Packages looked up: an entry point or none, and up to MaxFiles files, each
\* with code or empty.
EntryPoints == {"main.js", Undef}
FilePaths ==
    {"main.js", "extension/main.js", "out/main.js", "extension/out/main.js",
     "lib/main.js.map", "extension/extension.js", "readme.md"}
FileContents(path) == {"", "code of " \o path}
Catalogs ==
    {files \in UNION {[1..n -> UNION {{CatalogedFile(q, c) : c \in FileContents(q)} : q \in FilePaths}]
                        : n \in 0..MaxFiles} :
        \A i, j \in 1..Len(files) : i # j => files[i].path # files[j].path}
Packages == [extensionId : {"pub.ext"}, entryPoint : EntryPoints, files : Catalogs]

NoPackage == [extensionId |-> Undef, entryPoint |-> Undef, files |-> <<>>]

LookupOf(loadedVSIX) == [pc |-> "package", loadedVSIX |-> loadedVSIX, code |-> Null]

GetEntryPointCode ==
    /\ lookup.pc = "package"
    /\ lookup' = [lookup EXCEPT !.pc = "done", !.code = getEntryPointCode(lookup.loadedVSIX)]
    /\ UNCHANGED <<loaderVars, adapterVars, githubVars, unpackVars, client, parser>>

LookupInit == lookup = [LookupOf(NoPackage) EXCEPT !.pc = "idle"]

-----------------------------------------------------------------------------
(* GitHubUrlParser                                                         *)

\* The position of the first ch in s, 0 when there is none.
IndexOf(s, ch) ==
    LET at == {i \in 1..Len(s) : SubSeq(s, i, i) = ch}
    IN  IF at = {} THEN 0 ELSE CHOOSE i \in at : \A j \in at : i <= j

\* The position of the first "/" or "@" in s, 0 when there is none.
IndexOfSlashOrAt(s) ==
    LET at == {i \in 1..Len(s) : SubSeq(s, i, i) \in {"/", "@"}}
    IN  IF at = {} THEN 0 ELSE CHOOSE i \in at : \A j \in at : i <= j

\* s from position i on.
From(s, i) == SubSeq(s, i, Len(s))

\* s up to the first ch, all of s when there is none: s.split(ch)[0].
UpTo(s, ch) == IF IndexOf(s, ch) = 0 THEN s ELSE SubSeq(s, 1, IndexOf(s, ch) - 1)

RECURSIVE Trim(_)
\* url.trim() on blanks.
Trim(s) ==
    IF s # "" /\ SubSeq(s, 1, 1) = " " THEN Trim(From(s, 2))
    ELSE IF s # "" /\ SubSeq(s, Len(s), Len(s)) = " " THEN Trim(SubSeq(s, 1, Len(s) - 1))
    ELSE s

\* repo.replace(/\.git$/, '')
StripGit(repo) == IF EndsWith(repo, ".git") THEN SubSeq(repo, 1, Len(repo) - 4) ELSE repo

\* What a pattern captured: the groups 1 to 4, Undef for a group that took no
\* part; NoMatch when the pattern does not match.
Match(g1, g2, g3, g4) == [matched |-> TRUE, g1 |-> g1, g2 |-> g2, g3 |-> g3, g4 |-> g4]
NoMatch == [matched |-> FALSE, g1 |-> Undef, g2 |-> Undef, g3 |-> Undef, g4 |-> Undef]

\* ^https?:\/\/(?:www\.)?github\.com\/ : what follows the prefix, Undef when s
\* does not begin with it.
AfterGitHubPrefix(s) ==
    LET prefixes == {"https://github.com/", "http://github.com/",
                     "https://www.github.com/", "http://www.github.com/"}
        fits == {p \in prefixes : StartsWith(s, p)}
    IN  IF fits = {} THEN Undef ELSE From(s, Len(CHOOSE p \in fits : TRUE) + 1)

\* (?:\/(.+))?$ on the rest of the input: the group, Undef when the rest is
\* empty; no entry for a rest the pattern cannot end on, a lone "/".
RestGroup(rest) == IF rest = "" THEN Undef ELSE From(rest, 2)
RestFits(rest) == rest = "" \/ (StartsWith(rest, "/") /\ Len(rest) >= 2)

\* ([^\/]+)\/([^\/]+)(?:\/tree\/([^\/]+))?(?:\/(.+))?$ after the prefix. The
\* /tree/ group takes part when a ref follows it and the rest fits; otherwise
\* the engine backtracks and the last group takes all that follows the repo.
\* The pattern without /tree/ has three groups: its last group is group 3.
MatchOwnerRepo(s, withTree) ==
    LET slash == IndexOf(s, "/")
        owner == SubSeq(s, 1, slash - 1)
        afterOwner == From(s, slash + 1)
        repo == UpTo(afterOwner, "/")
        tail == From(afterOwner, Len(repo) + 1)
        ref == UpTo(From(tail, 7), "/")
        afterRef == From(tail, 7 + Len(ref))
    IN  IF slash <= 1 \/ repo = "" THEN NoMatch
        ELSE IF ~withTree
        THEN IF RestFits(tail) THEN Match(owner, repo, RestGroup(tail), Undef) ELSE NoMatch
        ELSE IF StartsWith(tail, "/tree/") /\ ref # "" /\ RestFits(afterRef)
        THEN Match(owner, repo, ref, RestGroup(afterRef))
        ELSE IF RestFits(tail) THEN Match(owner, repo, Undef, RestGroup(tail))
        ELSE NoMatch

\* GITHUB_URL_PATTERNS, lines 13-16: the pattern with /tree/ and the one without.
MatchUrlPattern(s, n) ==
    IF AfterGitHubPrefix(s) = Undef THEN NoMatch
    ELSE MatchOwnerRepo(AfterGitHubPrefix(s), n = 1)

\* SHORT_FORMAT_PATTERN, line 18:
\* ^([^\/@]+)\/([^\/@]+)(?:@([^\/]+))?(?:\/(.+))?$
MatchShort(s) ==
    LET stop == IndexOfSlashOrAt(s)
        owner == SubSeq(s, 1, stop - 1)
        afterOwner == From(s, stop + 1)
        repoEnd == IndexOfSlashOrAt(afterOwner)
        repo == IF repoEnd = 0 THEN afterOwner ELSE SubSeq(afterOwner, 1, repoEnd - 1)
        tail == From(afterOwner, Len(repo) + 1)
        ref == UpTo(From(tail, 2), "/")
        afterRef == From(tail, 2 + Len(ref))
    IN  IF stop <= 1 \/ SubSeq(s, stop, stop) # "/" \/ repo = "" THEN NoMatch
        ELSE IF StartsWith(tail, "@")
        THEN IF ref # "" /\ RestFits(afterRef)
             THEN Match(owner, repo, ref, RestGroup(afterRef))
             ELSE NoMatch
        ELSE IF RestFits(tail) THEN Match(owner, repo, Undef, RestGroup(tail))
        ELSE NoMatch

Parsed(owner, repo, ref, path) ==
    [ok |-> TRUE, owner |-> owner, repo |-> repo, ref |-> ref, path |-> path]
ParseError == [ok |-> FALSE, owner |-> Undef, repo |-> Undef, ref |-> Undef, path |-> Undef]

\* Lines 30-33: the result of a URL pattern's match. ref is match[3] ||
\* match[4]?.split('/')[0] || undefined; path is what follows the first "/" of
\* match[4], undefined when match[4] has no "/".
FromUrlMatch(m) ==
    Parsed(m.g1, StripGit(m.g2),
           IF Truthy(m.g3) THEN m.g3
           ELSE IF m.g4 # Undef /\ Truthy(UpTo(m.g4, "/")) THEN UpTo(m.g4, "/")
           ELSE Undef,
           IF m.g4 # Undef /\ IndexOf(m.g4, "/") > 0
           THEN From(m.g4, IndexOf(m.g4, "/") + 1)
           ELSE Undef)

\* Mutant: the short form's match is read as a URL pattern's.
FromShortMatchAsUrl(m) == FromUrlMatch(m)

\* Lines 44-47.
FromShortMatch(m) == Parsed(m.g1, StripGit(m.g2), m.g3, m.g4)

\* GitHubUrlParser.parse, the error it throws as ParseError.
parse(input) ==
    LET trimmed == Trim(input)
        m1 == MatchUrlPattern(trimmed, 1)
        m2 == MatchUrlPattern(trimmed, 2)
        short == MatchShort(trimmed)
    IN  IF ~Truthy(input) THEN ParseError
        ELSE IF m1.matched /\ Truthy(FromUrlMatch(m1).repo) THEN FromUrlMatch(m1)
        ELSE IF m2.matched /\ Truthy(FromUrlMatch(m2).repo) THEN FromUrlMatch(m2)
        ELSE IF short.matched /\ Truthy(FromShortMatch(short).repo) THEN FromShortMatch(short)
        ELSE ParseError

\* GitHubUrlParser.toGitHubUrl.
toGitHubUrl(p) ==
    LET base == "https://github.com/" \o Str(p.owner) \o "/" \o Str(p.repo)
        path == IF Truthy(p.path) THEN "/" \o p.path ELSE ""
    IN  IF Truthy(p.ref) THEN base \o "/tree/" \o p.ref \o path ELSE base \o path

-----------------------------------------------------------------------------
(* The calls of the pure functions                                        *)

\* Descriptors getDownloadUrl is asked about: each identity field and the
\* download URL absent, empty or given.
ClientDescriptors ==
    {Ext(ns, n, v, d) : ns \in {Undef, "", "pub", "redhat"}, n \in {Undef, "", "ext", "java"},
                        v \in {Undef, "", "1.0", "2.0"}, d \in {Undef, "", "https://cdn/x.vsix"}}

DownloadUrlOf(extension) == [pc |-> "descriptor", extension |-> extension, url |-> Undef]

\* openVSXClient.getDownloadUrl(extension).
GetDownloadUrl ==
    /\ client.pc = "descriptor"
    /\ client' = [client EXCEPT !.pc = "done", !.url = getDownloadUrl(client.extension)]
    /\ UNCHANGED <<loaderVars, adapterVars, githubVars, unpackVars, lookup, parser>>

ClientInit == client = [DownloadUrlOf(NoExt) EXCEPT !.pc = "idle"]

\* An identifier as it is written: its form and its components. The URL form
\* has the ref after /tree/ or as the first segment after the repo, and the
\* repo with or without .git.
Written(form, prefix, owner, repo, git, tree, ref, path) ==
    [form |-> form, prefix |-> prefix, owner |-> owner, repo |-> repo,
     git |-> git, tree |-> tree, ref |-> ref, path |-> path]

Paths == {Undef, "index.ts", "src/index.ts", "src/lib/index.ts"}

UrlForms ==
    {Written("url", pre, o, "ext", git, tree, ref, path) :
        pre \in {"https://github.com/", "http://www.github.com/"},
        o \in {"kispace", "octocat"}, git \in BOOLEAN, tree \in BOOLEAN,
        ref \in {Undef, "v1"}, path \in Paths}

\* A URL without ref has neither /tree/ nor a path.
WrittenUrls == {w \in UrlForms : w.ref = Undef => (~w.tree /\ w.path = Undef)}

WrittenShorts ==
    {Written("short", "", o, r, FALSE, FALSE, ref, path) :
        o \in {"kispace", "octocat"}, r \in {"ext", "hello-world"},
        ref \in {Undef, "v1", "v2"}, path \in Paths}

\* Identifiers toGitHubUrl is given.
Identifiers ==
    {Written("identifier", "", o, "ext", FALSE, FALSE, ref, path) :
        o \in {"kispace", "octocat"}, ref \in {Undef, "v1", "main"}, path \in Paths}

\* Inputs that are no identifier, and one with blanks around it.
RawInputs ==
    {"", "kispace", "https://github.com/kispace", "kispace/ext@", " kispace/ext@v1 ",
     "https://github.com/kispace/ext/"}

NoWritten == Written("raw", "", Undef, Undef, FALSE, FALSE, Undef, Undef)

\* The text of a written identifier.
Render(w) ==
    LET path == IF w.path = Undef THEN "" ELSE "/" \o w.path
    IN  IF w.form = "url"
        THEN w.prefix \o w.owner \o "/" \o w.repo \o (IF w.git THEN ".git" ELSE "")
                \o (IF w.ref = Undef THEN ""
                    ELSE (IF w.tree THEN "/tree/" ELSE "/") \o w.ref)
                \o path
        ELSE w.owner \o "/" \o w.repo \o (IF w.ref = Undef THEN "" ELSE "@" \o w.ref)
                \o path

ParserInput(w, input) ==
    [pc |-> "input", written |-> w, input |-> input, result |-> ParseError]
ParserIdentifier(w) ==
    [pc |-> "identifier", written |-> w, input |-> Undef, result |-> ParseError]

\* GitHubUrlParser.toGitHubUrl(parsed); its result is parsed next.
ToGitHubUrl ==
    /\ parser.pc = "identifier"
    /\ parser' = [parser EXCEPT
            !.pc = "input",
            !.input = toGitHubUrl(Parsed(parser.written.owner, parser.written.repo,
                                         parser.written.ref, parser.written.path))]
    /\ UNCHANGED <<loaderVars, adapterVars, githubVars, unpackVars, lookup, client>>

\* GitHubUrlParser.parse(url).
Parse ==
    /\ parser.pc = "input"
    /\ parser' = [parser EXCEPT !.pc = "done", !.result = parse(parser.input)]
    /\ UNCHANGED <<loaderVars, adapterVars, githubVars, unpackVars, lookup, client>>

UrlInit == parser = [ParserInput(NoWritten, Undef) EXCEPT !.pc = "idle"]

PureInit == LookupInit /\ ClientInit /\ UrlInit

-----------------------------------------------------------------------------
(* VSIXLoader: the manifest interpretation of the unpack step on its own   *)

\* Manifests: the entry fields absent, empty, with one and with two leading
\* "./", and the supported-environment tags.
MainValues == {Undef, "", "main.js", "./out/main.js", "././m.js"}
BrowserValues == {Undef, "", "web.js", "./dist/web.js", "././w.js"}
ExtensionKinds == {<<>>, <<"web">>, <<"ui">>, <<"workspace">>, <<"workspace", "ui">>}
Manifests ==
    [publisher : {"pub"}, name : {"ext"}, version : {"1.0"},
     main : MainValues, browser : BrowserValues, extensionKind : ExtensionKinds]

NoManifest ==
    [publisher |-> Undef, name |-> Undef, version |-> Undef,
     main |-> Undef, browser |-> Undef, extensionKind |-> <<>>]

\* A manifest read from an archive, not interpreted yet.
ManifestRead(manifest) ==
    [pc |-> "manifest", manifest |-> manifest, entryPoint |-> Undef, isWebExtension |-> FALSE]

\* extractVSIX lines 137-150 and 194 on the manifest.
InterpretManifest ==
    /\ unpack.pc = "manifest"
    /\ unpack' = [unpack EXCEPT
            !.pc = "done",
            !.entryPoint = EntryPointOf(unpack.manifest),
            !.isWebExtension = isWebExtension(unpack.manifest)]
    /\ UNCHANGED <<loaderVars, adapterVars, githubVars, pureVars>>

UnpackInit == unpack = [ManifestRead(NoManifest) EXCEPT !.pc = "idle"]

Init == LoaderInit /\ AdapterInit /\ GitHubInit /\ UnpackInit /\ PureInit

\* Every manifest of the model, read from an archive.
InitUnpack ==
    /\ LoaderInit /\ AdapterInit /\ GitHubInit /\ PureInit
    /\ unpack \in {ManifestRead(m) : m \in Manifests}

NextUnpack == InterpretManifest

NextGitHub ==
    \/ \E parsed \in ParsedUrls : DiscoverEntryPoint(parsed)
    \/ \E response \in ApiResponses : DescriptorDone(response)
    \/ \E response \in ProbeResponses : ProbeDone(response)
    \/ ReturnEntryPoint


-----------------------------------------------------------------------------
(* Specifications                                                          *)

LoaderStep(c) ==
    \/ \E extension \in Descriptors : LoadFromOpenVSX(c, extension)
    \/ LoadFromUrl(c, FALSE, NoExt)
    \/ \E extension \in UrlDescriptors : LoadFromUrl(c, TRUE, extension)
    \/ \E response \in Responses : FetchDone(c, response)
    \/ Extract(c)
    \/ \E persistOk \in BOOLEAN : Persist(c, persistOk)
    \/ Finish(c)
    \/ \E extensionId \in CachedIds, version \in CachedVersions :
            GetCachedVSIX(c, extensionId, version)
    \/ \E readOk \in BOOLEAN : ReadDone(c, readOk)
    \/ Return(c)

\* One caller that awaits each call before it makes the next.
Next == LoaderStep("c1") \/ NewLoader

\* The package loader under any sequence of calls, each with every outcome of
\* its download, unpack, cache write and cache read.
Spec == Init /\ [][Next]_vars

\* Descriptors and downloads of two callers whose loads overlap.
OverlapDescriptors == {Ext("pub", "ext", "1.0", Undef), Ext("pub", "ext", "2.0", Undef)}

OverlapResponses ==
    {[kind |-> "error", blob |-> BlobNotZip], [kind |-> "ok", blob |-> BlobMain],
     [kind |-> "ok", blob |-> BlobBrowser]}

OverlapStep(c) ==
    \/ \E extension \in OverlapDescriptors : LoadFromOpenVSX(c, extension)
    \/ \E response \in OverlapResponses : FetchDone(c, response)
    \/ Extract(c)
    \/ \E persistOk \in BOOLEAN : Persist(c, persistOk)
    \/ Finish(c)
    \/ Return(c)

\* Two callers, neither awaiting the other: their loads interleave at every
\* suspension point.
NextOverlap == \E c \in Calls : OverlapStep(c)

SpecOverlap == Init /\ [][NextOverlap]_vars

\* One host API emulator under any sequence of calls of the extension.
SpecAdapter == Init /\ [][NextAdapter]_vars

\* The emulator with its document and file reads. Without a workspace no
\* resource is looked up, so none is drawn.
NextWorkspace ==
    \/ NextAdapter
    \/ \E api \in {"openTextDocument", "readFile"}, uri \in Uris, workspace \in Workspaces :
        \E resource \in IF workspace = "none" THEN {"none"} ELSE Resources :
            OpenOrRead(api, uri, workspace, resource)

SpecWorkspace == Init /\ [][NextWorkspace]_vars

\* Entry-point discovery under every answer of the API and of the CDN.
SpecGitHub == Init /\ [][NextGitHub]_vars

\* The manifest interpretation of the unpack step on every manifest.
SpecUnpack == InitUnpack /\ [][NextUnpack]_vars

\* getEntryPointCode on every package of the model.
InitLookup ==
    /\ LoaderInit /\ AdapterInit /\ GitHubInit /\ UnpackInit /\ ClientInit /\ UrlInit
    /\ lookup \in {LookupOf(p) : p \in Packages}

NextLookup == GetEntryPointCode

SpecLookup == InitLookup /\ [][NextLookup]_vars

\* getDownloadUrl on every descriptor of the model.
InitClient ==
    /\ LoaderInit /\ AdapterInit /\ GitHubInit /\ UnpackInit /\ LookupInit /\ UrlInit
    /\ client \in {DownloadUrlOf(e) : e \in ClientDescriptors}

NextClient == GetDownloadUrl

SpecClient == InitClient /\ [][NextClient]_vars

\* The identifier parser on every identifier of the model.
InitParser ==
    /\ LoaderInit /\ AdapterInit /\ GitHubInit /\ UnpackInit /\ LookupInit /\ ClientInit
    /\ parser \in {ParserInput(w, Render(w)) : w \in WrittenUrls \cup WrittenShorts}
                  \cup {ParserInput(NoWritten, t) : t \in RawInputs}
                  \cup {ParserIdentifier(w) : w \in Identifiers}

NextParser == ToGitHubUrl \/ Parse

SpecParser == InitParser /\ [][NextParser]_vars

-----------------------------------------------------------------------------
(* Claims about the package loader                                         *)

\* The identifier and version a call asks for.
AskedId(call) ==
    IF call.op = "getCachedVSIX" THEN call.reqId ELSE getExtensionId(call.ext)
AskedVersion(call) ==
    IF call.op = "getCachedVSIX" THEN call.reqVer ELSE call.ext.version

\* This step is the invocation of loadFromOpenVSX in slot c.
InvokesLoad(c) == calls[c].pc = "idle" /\ calls'[c].op = "loadFromOpenVSX"

\* C1 as stated: loadFromRegistryExtension for identifier I and version V never
\* starts a download while the persistent cache holds a record under
\* vsix_extensions/I/V.
C1_NoDownloadWhilePersisted ==
    [][\A c \in Calls :
        (InvokesLoad(c) /\ calls'[c].fetched)
        => ~Has(persisted, CacheKey(AskedId(calls'[c]), AskedVersion(calls'[c])))]_vars

\* C1 amended: a load request checks the in-memory repository, and only it, before
\* issuing network I/O: loadFromRegistryExtension for I and V starts a download
\* exactly when the in-memory repository has no entry for I of version V and a
\* download URL can be computed, whatever the persistent cache holds.
C1_DownloadIffMemoryMiss ==
    [][\A c \in Calls :
        InvokesLoad(c)
        => LET I == AskedId(calls'[c])
               V == AskedVersion(calls'[c])
               inMemory == Has(loadedExtensions, I) /\ loadedExtensions[I].version = V
           IN  /\ calls'[c].fetched
                    <=> (~inMemory /\ getDownloadUrl(calls'[c].ext) # Undef)
               /\ calls'[c].fetched => calls'[c].pc = "downloading"]_vars

\* C1 witness: a load of (I, V) is downloading although the persistent cache
\* holds vsix_extensions/I/V.
C1_Witness ==
    \E c \in Calls :
        /\ calls[c].op = "loadFromOpenVSX"
        /\ calls[c].pc = "downloading"
        /\ Has(persisted, CacheKey(AskedId(calls[c]), AskedVersion(calls[c])))

\* C2 as stated: after loadFromRegistryExtension succeeded for (I, V), every later
\* loadFromRegistryExtension of (I, V), with no load or cache hit of another
\* version of I in between, returns the very same instance without a network
\* request.
C2_SameInstanceUnlessOtherVersion ==
    [][\A c \in Calls :
        InvokesLoad(c)
        => LET I == AskedId(calls'[c])
               V == AskedVersion(calls'[c])
           IN  (Truthy(V) /\ Has(lastLoad, I) /\ lastLoad[I].ver = V)
               => /\ calls'[c].pc = "done"
                  /\ calls'[c].ret = "pkg"
                  /\ calls'[c].pkg.inst = lastLoad[I].inst
                  /\ ~calls'[c].fetched]_vars

\* C2 amended: after loadFromRegistryExtension succeeded for (I, V), every later
\* loadFromRegistryExtension of (I, V), with no other load or cache hit of I, of
\* any version, completed in between, returns the very same instance without a
\* network request; the repository is left as it was.
C2_SameInstanceUnlessReplaced ==
    [][\A c \in Calls :
        InvokesLoad(c)
        => LET I == AskedId(calls'[c])
               V == AskedVersion(calls'[c])
           IN  (Truthy(V) /\ Has(lastLoad, I) /\ lastLoad[I].ver = V
                    /\ ~lastLoad[I].replaced)
               => /\ calls'[c].pc = "done"
                  /\ calls'[c].ret = "pkg"
                  /\ calls'[c].pkg.inst = lastLoad[I].inst
                  /\ ~calls'[c].fetched
                  /\ UNCHANGED <<loadedExtensions, persisted>>]_vars

\* C2 witness: a load is served from memory with the instance an earlier load
\* of the same identifier and version unpacked.
C2_Witness ==
    \E c \in Calls :
        /\ calls[c].op = "loadFromOpenVSX"
        /\ calls[c].pc = "done"
        /\ ~calls[c].fetched
        /\ Has(lastLoad, AskedId(calls[c]))
        /\ lastLoad[AskedId(calls[c])].inst = calls[c].pkg.inst
        /\ "isWebExtension" \in DOMAIN calls[c].pkg
        /\ nextInst >= 2

\* C3: a load whose download answers with a transport error or a non-success
\* status, whose payload is no archive, holds no manifest or holds a manifest
\* that is not JSON, ends in FAILED with an error for the caller, having written
\* neither the in-memory repository nor the persistent cache.
C3_FailedLoadWritesNothing ==
    \A c \in Calls :
        calls[c].op \in LoadOps
        => /\ calls[c].resp.kind \in {"error", "status"} => calls[c].pc = "failed"
           /\ (calls[c].resp.kind = "ok" /\ ExtractError(calls[c].resp.blob) # "none")
                => calls[c].pc \in {"unpacking", "failed"}
           /\ calls[c].pc = "failed"
                => /\ calls[c].err # "none"
                   /\ calls[c].ret = "none"
                   /\ ~calls[c].wrote

\* C3 witness: a load failed on a manifest that is not JSON while the
\* repository and the cache hold an earlier package.
C3_Witness ==
    \E c \in Calls :
        /\ calls[c].op \in LoadOps
        /\ calls[c].pc = "failed"
        /\ calls[c].err = "ManifestParseError"
        /\ loadedExtensions # EmptyMap
        /\ persisted # EmptyMap

\* C4: when persistObject throws during the cache write, the load still returns
\* the unpacked package, the in-memory repository holds that package under its
\* identifier, and a following load of its identifier and version is served
\* from memory.
C4_CacheWriteFailureIsSwallowed ==
    \A c \in Calls :
        (calls[c].op \in LoadOps /\ calls[c].ioFailed)
        => /\ calls[c].pc \in {"cached", "done"}
           /\ calls[c].pc = "done"
                => LET p == calls[c].pkg
                   IN  /\ calls[c].ret = "pkg"
                       /\ Has(loadedExtensions, p.extensionId)
                       /\ loadedExtensions[p.extensionId] = p
                       /\ \A e \in Descriptors :
                            (getExtensionId(e) = p.extensionId /\ e.version = p.version)
                            => LoadDecision(loadedExtensions, e) = "memory"

\* C4 witness: a load completed although its cache write failed.
C4_Witness ==
    \E c \in Calls :
        /\ calls[c].op \in LoadOps
        /\ calls[c].ioFailed
        /\ calls[c].pc = "done"
        /\ ~Has(persisted, CacheKey(calls[c].pkg.extensionId, calls[c].pkg.version))
\* The identifier a completed call returned a package for: the one asked for
\* or, for a load, the one the unpack step computed.
LoadedId(call) ==
    IF call.op = "getCachedVSIX" THEN call.reqId ELSE call.pkg.extensionId

\* This step completes the call in slot c with a package.
CompletesWithPackage(c) ==
    calls[c].pc # "done" /\ calls'[c].pc = "done" /\ calls'[c].ret = "pkg"

\* C5: the in-memory repository holds at most one package per extension
\* identifier (each entry is filed under its own identifier), and the package
\* under I is the result of the most recently completed successful load or cache
\* hit for I: an entry changes only when such a call completes, and is then its
\* result. A load of (I, V1) while the repository holds another version of I is
\* a miss and downloads again.
C5_OnePackagePerIdentifier ==
    /\ [](\A k \in DOMAIN loadedExtensions : loadedExtensions[k].extensionId = k)
    /\ [][/\ \A k \in DOMAIN loadedExtensions' :
                (~Has(loadedExtensions, k) \/ loadedExtensions'[k] # loadedExtensions[k])
                => \E c \in Calls : /\ CompletesWithPackage(c)
                                    /\ LoadedId(calls'[c]) = k
                                    /\ calls'[c].pkg = loadedExtensions'[k]
          /\ \A c \in Calls :
                CompletesWithPackage(c)
                => /\ Has(loadedExtensions', LoadedId(calls'[c]))
                   /\ loadedExtensions'[LoadedId(calls'[c])] = calls'[c].pkg
          /\ \A c \in Calls :
                (/\ InvokesLoad(c)
                 /\ Has(loadedExtensions, AskedId(calls'[c]))
                 /\ loadedExtensions[AskedId(calls'[c])].version # AskedVersion(calls'[c])
                 /\ getDownloadUrl(calls'[c].ext) # Undef)
                => calls'[c].pc = "downloading" /\ calls'[c].fetched]_vars

\* C5 witness: version 1.0 of I was loaded, then version 2.0 replaced it in
\* memory, and a load of (I, 1.0) is downloading again.
C5_Witness ==
    \E c \in Calls :
        /\ calls[c].op = "loadFromOpenVSX"
        /\ calls[c].pc = "downloading"
        /\ AskedVersion(calls[c]) = "1.0"
        /\ Has(persisted, CacheKey(AskedId(calls[c]), "1.0"))
        /\ Has(loadedExtensions, AskedId(calls[c]))
        /\ loadedExtensions[AskedId(calls[c])].version = "2.0"

\* C6: whenever loadFromRegistryExtension serves a descriptor (I, V) from memory,
\* and whenever getCachedPackage(I, V) returns a package, the returned package
\* has extension identifier I and version V and is the entry of the in-memory
\* repository under I.
C6_HitHasRequestedVersion ==
    \A c \in Calls :
        (/\ calls[c].pc = "done"
         /\ calls[c].ret = "pkg"
         /\ \/ calls[c].op = "getCachedVSIX"
            \/ calls[c].op = "loadFromOpenVSX" /\ ~calls[c].fetched)
        => /\ calls[c].pkg.extensionId = AskedId(calls[c])
           /\ calls[c].pkg.version = AskedVersion(calls[c])
           /\ Has(loadedExtensions, AskedId(calls[c]))
           /\ loadedExtensions[AskedId(calls[c])] = calls[c].pkg

\* C6 witness: getCachedPackage(I, 2.0) returned a package while the cache also
\* holds version 1.0 of I.
C6_Witness ==
    \E c \in Calls :
        /\ calls[c].op = "getCachedVSIX"
        /\ calls[c].pc = "done"
        /\ calls[c].ret = "pkg"
        /\ calls[c].reqVer = "2.0"
        /\ Has(persisted, CacheKey(calls[c].reqId, "1.0"))

\* C7: after getCachedPackage(I, V) returned a package, the repository entry for
\* I is that package, and a following loadFromRegistryExtension for a descriptor
\* with the same I and V is served from memory (it returns the entry without a
\* network request).
C7_CacheHitRepopulatesMemory ==
    \A c \in Calls :
        (calls[c].op = "getCachedVSIX" /\ calls[c].pc = "done" /\ calls[c].ret = "pkg")
        => /\ Has(loadedExtensions, calls[c].reqId)
           /\ loadedExtensions[calls[c].reqId] = calls[c].pkg
           /\ \A e \in Descriptors :
                (getExtensionId(e) = calls[c].reqId /\ e.version = calls[c].reqVer)
                => LoadDecision(loadedExtensions, e) = "memory"

\* C7 witness: getCachedPackage returned a package in a loader whose repository
\* held nothing for the identifier before (a new loader).
C7_Witness ==
    \E c \in Calls :
        /\ calls[c].op = "getCachedVSIX"
        /\ calls[c].pc = "done"
        /\ calls[c].ret = "pkg"
        /\ DOMAIN loadedExtensions = {calls[c].reqId}
        /\ lastLoad = EmptyMap

\* C8: getCachedPackage never throws; for an identifier and version that is not
\* cached, and when the persistence read fails, it returns null and has not
\* written the in-memory repository.
C8_GetCachedNeverThrows ==
    \A c \in Calls :
        calls[c].op = "getCachedVSIX"
        => /\ calls[c].pc # "failed"
           /\ calls[c].err = "none"
           /\ (/\ calls[c].pc = "done"
               /\ \/ calls[c].ioFailed
                  \/ ~Has(persisted, CacheKey(calls[c].reqId, calls[c].reqVer)))
                => calls[c].ret = "null" /\ ~calls[c].wrote

\* C8 witness: the read of a record that is cached failed, and getCachedPackage
\* returned null.
C8_Witness ==
    \E c \in Calls :
        /\ calls[c].op = "getCachedVSIX"
        /\ calls[c].pc = "done"
        /\ calls[c].ioFailed
        /\ calls[c].ret = "null"
        /\ Has(persisted, CacheKey(calls[c].reqId, calls[c].reqVer))

\* Whether the descriptor lacks a namespace, a name or a version.
LacksIdentity(e) == ~Truthy(e.namespace) \/ ~Truthy(e.name) \/ ~Truthy(e.version)

\* C9: loadFromRegistryExtension on an in-memory miss fails with NoDownloadUrl
\* when the descriptor carries no download descriptor and lacks a namespace, name
\* or version; no network request is issued and nothing is written.
C9_NoDownloadUrl ==
    \A c \in Calls :
        (/\ calls[c].op = "loadFromOpenVSX"
         /\ ~Truthy(calls[c].ext.download)
         /\ LacksIdentity(calls[c].ext))
        => \/ calls[c].pc = "done" /\ ~calls[c].fetched
           \/ /\ calls[c].pc = "failed"
              /\ calls[c].err = "NoDownloadUrl"
              /\ ~calls[c].fetched
              /\ ~calls[c].wrote

\* C9 witness: a load of a descriptor without version and without download
\* descriptor failed with NoDownloadUrl while the repository holds a package.
C9_Witness ==
    \E c \in Calls :
        /\ calls[c].op = "loadFromOpenVSX"
        /\ calls[c].err = "NoDownloadUrl"
        /\ calls[c].ext.version = Undef
        /\ loadedExtensions # EmptyMap

-----------------------------------------------------------------------------
(* Claims about the host API emulator                                      *)

\* The successful registerCommand calls for the id, as the disposables they
\* returned, in call order.
Registrations(commandId) ==
    {d \in 1..Len(disposables) :
        disposables[d].kind = "command" /\ disposables[d].commandId = commandId}

Latest(ds) == CHOOSE d \in ds : \A e \in ds : e <= d

\* C10: when registerCommand was called twice (or more) with the same id,
\* executeCommand(id, ...args) invokes the callback of the latest call, once,
\* bound to that call's binding target, with the arguments in order, and no
\* callback of an earlier call.
C10_SecondCallbackInvoked ==
    (outcome.op = "executeCommand" /\ Cardinality(Registrations(outcome.id)) >= 2)
    => LET d == Latest(Registrations(outcome.id))
       IN  outcome.log = <<[callback |-> disposables[d].callback,
                            thisArg |-> disposables[d].thisArg,
                            args |-> outcome.args]>>

\* C10 witness: executeCommand(id, "x", "y") after two registerCommand calls for
\* id with different callbacks.
C10_Witness ==
    /\ outcome.op = "executeCommand"
    /\ outcome.args = <<"x", "y">>
    /\ Len(outcome.log) = 1
    /\ \E d1, d2 \in Registrations(outcome.id) :
            d1 < d2 /\ disposables[d1].callback # disposables[d2].callback

\* The step is dispose() on the disposable d an API call returned.
DisposesReturned(d) ==
    /\ outcome'.op = "disposable.dispose"
    /\ outcome'.log = <<d>>

\* A registration of the id after d whose disposable was not disposed.
LaterLive(d) ==
    \E e \in Registrations(disposables[d].commandId) : e > d /\ ~disposables[e].disposed

\* C11: after registerCommand was called twice with the same id, dispose() on
\* the first returned disposable removes the id from the local handler index,
\* so that getCommands(), which lists exactly the ids of the local index, no
\* longer contains it although the second registration was not disposed.
C11_FirstDisposeRemovesId ==
    /\ [](outcome.op = "getCommands" => outcome.ids = DOMAIN commandHandlers)
    /\ [][\A d \in 1..Len(disposables) :
            (DisposesReturned(d) /\ disposables[d].kind = "command" /\ LaterLive(d))
            => disposables[d].commandId \notin getCommands(commandHandlers')]_vars

\* C11 witness: getCommands() answers without the id, whose first registration
\* was disposed and whose second was not, while the registry still has it.
C11_Witness ==
    /\ outcome.op = "getCommands"
    /\ \E d1, d2 \in 1..Len(disposables) :
        /\ d1 < d2
        /\ {d1, d2} \subseteq Registrations(disposables[d1].commandId)
        /\ disposables[d1].disposed /\ ~disposables[d2].disposed
        /\ disposables[d1].commandId \notin outcome.ids
        /\ RegistryHasCommand(registry, disposables[d1].commandId)

\* C12: disposing the disposable registerCommand returned leaves the shared
\* command registry unchanged, and a later executeCommand(id) still invokes the
\* callback although the id is gone from the local handler index.
C12_DisposeLeavesRegistry ==
    /\ [][\A d \in 1..Len(disposables) : DisposesReturned(d) => registry' = registry]_vars
    /\ [][\A d \in Registrations(outcome.id) :
            (outcome.op = "disposable.dispose" /\ outcome.log = <<d>>)
            => /\ ENABLED ExecuteCommand(outcome.id, <<"x", "y">>)
               /\ (outcome'.op = "executeCommand" /\ outcome'.id = outcome.id)
                  => /\ Len(outcome'.log) = 1
                     /\ outcome'.log[1].callback
                            = disposables[Latest(Registrations(outcome.id))].callback]_vars

\* C12 witness: executeCommand(id) ran a callback while the id, registered and
\* then disposed, is not in the local handler index.
C12_Witness ==
    /\ outcome.op = "executeCommand"
    /\ Len(outcome.log) = 1
    /\ outcome.id \notin DOMAIN commandHandlers
    /\ \E d \in Registrations(outcome.id) :
            disposables[d].disposed /\ disposables[d].callback = outcome.log[1].callback

\* C13: dispose() of the emulator invokes the disposal of every subscription of
\* the context's subscription list, in list order, those after a throwing one
\* included; it never throws, and afterwards the subscription list is empty.
C13_DisposeRunsEveryDisposer ==
    [][outcome'.op = "dispose"
       => /\ outcome'.log = subscriptions
          /\ outcome'.err = "none"
          /\ subscriptions' = <<>>]_vars

\* C13 witness: dispose() went through a list whose first disposer throws and
\* whose later one is a command's, which left the local handler index.
C13_Witness ==
    /\ outcome.op = "dispose"
    /\ Len(outcome.log) >= 2
    /\ disposables[outcome.log[1]].throws
    /\ \E i \in 2..Len(outcome.log) :
            /\ disposables[outcome.log[i]].kind = "command"
            /\ disposables[outcome.log[i]].commandId \notin DOMAIN commandHandlers
    /\ subscriptions = <<>>

\* A registerCommand step with this callback value.
RegisterCommandStep(commandId, callback) ==
    \E thisArg \in ThisArgs : RegisterCommand(commandId, callback, thisArg)

\* C14: registerCommand fails with InvalidCallback whenever the callback is not
\* invocable, undefined and null included, and a failed call registers nothing.
C14_InvalidCallbackWhenNotInvocable ==
    [][\A commandId \in CommandIds, callback \in CallbackValues \ Functions :
            RegisterCommandStep(commandId, callback)
            => /\ outcome'.err = "InvalidCallback"
               /\ UNCHANGED <<registry, commandHandlers, subscriptions>>]_vars

\* C14, the part the code keeps: a registerCommand call with a callback that is
\* not invocable fails and registers nothing.
C14_FailedCallRegistersNothing ==
    [][\A commandId \in CommandIds, callback \in CallbackValues \ Functions :
            RegisterCommandStep(commandId, callback)
            => /\ outcome'.err # "none"
               /\ UNCHANGED <<registry, commandHandlers, subscriptions>>]_vars

\* C14 witness: registerCommand with undefined or null as callback ended in the
\* TypeError of line 56, with nothing registered.
C14_Witness ==
    /\ outcome.op = "registerCommand"
    /\ outcome.err = "TypeError"
    /\ outcome.id \notin DOMAIN registry

-----------------------------------------------------------------------------
(* Claims about entry-point discovery                                      *)

\* The resolution has gone past the package descriptor.
PastDescriptor == gh.pc \in {"probing", "done", "failed"} /\ ~Truthy(gh.parsed.path)

\* The k-th existence probe is the request at this position.
ProbeAt(k) == CHOOSE i \in Probes(gh.requests) :
                Cardinality({j \in Probes(gh.requests) : j <= i}) = k

\* The probes made are of the conventional names in their fixed order, and none
\* follows a successful one, whose name is the entry point.
ProbesInOrderUntilSuccess ==
    \A k \in 1..Cardinality(Probes(gh.requests)) :
        LET i == ProbeAt(k)
        IN  /\ k <= Len(ENTRY_POINTS)
            /\ gh.requests[i].url = toEsmShUrl(gh.parsed, ENTRY_POINTS[k])
            /\ gh.requests[i].outcome = "ok"
               => /\ i = Len(gh.requests)
                  /\ gh.pc = "done"
                  /\ gh.result.path = ENTRY_POINTS[k]

\* An explicit path resolves to that path with no network request at all.
ExplicitPathWins ==
    (gh.pc # "idle" /\ Truthy(gh.parsed.path))
    => gh.pc = "done" /\ gh.result.path = gh.parsed.path /\ gh.requests = <<>>

\* C15: first success wins and no further candidate is tried: an explicit path
\* resolves to that path with no request at all; otherwise a package descriptor
\* that declares a main field (a string that is not empty) resolves to the
\* field's value with no existence probe; otherwise the conventional names are
\* probed in their fixed order, and none after the first successful probe.
C15_MainStringWins ==
    /\ ExplicitPathWins
    /\ (PastDescriptor /\ gh.main.type = "string" /\ gh.main.value # "")
       => /\ gh.pc = "done"
          /\ gh.result.path = gh.main.value
          /\ Probes(gh.requests) = {}
    /\ (PastDescriptor /\ ~(gh.main.type = "string" /\ gh.main.value # ""))
       => Probes(gh.requests) # {}
    /\ ProbesInOrderUntilSuccess

\* C15 witness: a descriptor with main "out/ext.js" resolved to that path after
\* the one request of the descriptor.
C15_Witness ==
    /\ gh.pc = "done"
    /\ gh.main = JsonString("out/ext.js")
    /\ gh.result.path = "out/ext.js"
    /\ Len(gh.requests) = 1
    /\ gh.requests[1].method = "GET"

\* The descriptor gave the resolution no entry point.
YieldsNoMain == ~(MainTruthy(gh.main) /\ ~MainThrows(gh.main))

\* C16: the resolution fails, with EntryPointNotFound, exactly when no
\* candidate resolves: no explicit path, no main field from the descriptor, and
\* every conventional name probed without success. A failed descriptor fetch
\* and a transport error of a probe do not end it: the next candidate is tried.
C16_FailsIffNoCandidate ==
    /\ gh.pc = "failed"
       => /\ gh.err = "EntryPointNotFound"
          /\ ~Truthy(gh.parsed.path)
          /\ YieldsNoMain
          /\ Cardinality(Probes(gh.requests)) = Len(ENTRY_POINTS)
          /\ \A i \in Probes(gh.requests) : gh.requests[i].outcome \in {"status", "error"}
    /\ gh.pc = "done"
       => \/ Truthy(gh.parsed.path)
          \/ ~YieldsNoMain
          \/ gh.requests[Len(gh.requests)].outcome = "ok"
    /\ (PastDescriptor /\ gh.requests[1].outcome \in {"error", "status", "notJson"})
       => Probes(gh.requests) # {}
    /\ \A k \in 1..Cardinality(Probes(gh.requests)) :
        gh.requests[ProbeAt(k)].outcome \in {"status", "error"}
        => IF k < Len(ENTRY_POINTS)
           THEN /\ ProbeAt(k) < Len(gh.requests)
                /\ gh.requests[ProbeAt(k) + 1].url = toEsmShUrl(gh.parsed, ENTRY_POINTS[k + 1])
           ELSE gh.pc = "failed"

\* C16 witness: the resolution failed after a descriptor fetch that ended in a
\* transport error and seven probes, the first of them a transport error too.
C16_Witness ==
    /\ gh.pc = "failed"
    /\ gh.err = "EntryPointNotFound"
    /\ Len(gh.requests) = 8
    /\ gh.requests[1].outcome = "error"
    /\ gh.requests[2].outcome = "error"
    /\ gh.requests[8].url = "https://esm.sh/gh/kispace/ext@main/main.js"

-----------------------------------------------------------------------------
(* Claims about the unpack step                                            *)

\* The package a load call has unpacked.
Unpacked(c) == calls[c].op \in LoadOps /\ calls[c].pkg # NoPkg

\* C17: every LoadedPackage the unpack step produces has
\* extensionId = namespace + "." + name, with or without a registry descriptor
\* and whichever identity fields the descriptor leaves empty.
C17_IdIsNamespaceDotName ==
    \A c \in Calls :
        Unpacked(c)
        => calls[c].pkg.extensionId
                = Str(calls[c].pkg.namespace) \o "." \o Str(calls[c].pkg.name)

\* C17 witness: a package unpacked for a descriptor without namespace, its
\* namespace taken from the manifest's publisher.
C17_Witness ==
    \E c \in Calls :
        /\ Unpacked(c)
        /\ calls[c].hasExt /\ calls[c].ext.namespace = Undef
        /\ calls[c].pkg.namespace = "pub"
        /\ calls[c].pkg.extensionId = "undefined.ext"

\* The entry point is the field's value, a leading "./" taken off or not.
ComesFrom(entryPoint, field) == entryPoint = field \/ "./" \o entryPoint = field

\* C18: the unpack step takes the entry point from the manifest's browser field
\* when present (not empty), else from its main field, else it is the default
\* extension.js; a main field never overrides a present browser field.
C18_BrowserThenMainThenDefault ==
    unpack.pc = "done"
    => LET m == unpack.manifest
           e == unpack.entryPoint
       IN  /\ Truthy(m.browser) => ComesFrom(e, m.browser)
           /\ (Truthy(m.browser) /\ Truthy(m.main)) => ~ComesFrom(e, m.main)
           /\ (~Truthy(m.browser) /\ Truthy(m.main)) => ComesFrom(e, m.main)
           /\ (~Truthy(m.browser) /\ ~Truthy(m.main)) => e = "extension.js"

\* C18 witness: a manifest with main and browser, unpacked with the browser
\* field's path as entry point.
C18_Witness ==
    /\ unpack.pc = "done"
    /\ unpack.manifest.main = "main.js"
    /\ unpack.manifest.browser = "./dist/web.js"
    /\ unpack.entryPoint = "dist/web.js"

\* C19: the entry-point path of a LoadedPackage does not begin with "./", for
\* every manifest entry value, those with more than one leading "./" included.
C19_NoLeadingMarker ==
    unpack.pc = "done" => ~StartsWith(unpack.entryPoint, "./")

\* C19 witness: the main field "././m.js" unpacked to the entry point "./m.js".
C19_Witness ==
    /\ unpack.pc = "done"
    /\ unpack.manifest.main = "././m.js"
    /\ unpack.entryPoint = "./m.js"

\* The supported-environment tags of the manifest.
Tags(manifest) == {manifest.extensionKind[i] : i \in 1..Len(manifest.extensionKind)}

\* C20: the web-compatibility flag is true exactly when the manifest has a
\* browser field, or its tags include web or ui, or it has neither a main nor a
\* browser field; only main and no tags gives false, neither field and no tags
\* gives true.
C20_WebFlag ==
    unpack.pc = "done"
    => LET m == unpack.manifest
       IN  /\ unpack.isWebExtension
                <=> \/ Truthy(m.browser)
                    \/ Tags(m) \cap {"web", "ui"} # {}
                    \/ ~Truthy(m.main) /\ ~Truthy(m.browser)
           /\ (Truthy(m.main) /\ m.browser = Undef /\ Tags(m) = {})
              => ~unpack.isWebExtension
           /\ (m.main = Undef /\ m.browser = Undef /\ Tags(m) = {})
              => unpack.isWebExtension

\* C20 witness: a manifest with only main and the tags workspace and ui has the
\* flag; one with only main and no tag is covered by C20_WebFlag too.
C20_Witness ==
    /\ unpack.pc = "done"
    /\ unpack.manifest.main = "main.js"
    /\ unpack.manifest.browser = Undef
    /\ unpack.manifest.extensionKind = <<"workspace", "ui">>
    /\ unpack.isWebExtension

-----------------------------------------------------------------------------
(* Claims about getEntryPointCode                                          *)

\* The entry point is cataloged, with code, at the archive root and under the
\* namespaced root.
AtRootAndNamespaced ==
    LET entryPoint == LookedUp(lookup.loadedVSIX)
    IN  /\ Truthy(FilesGet(lookup.loadedVSIX.files, entryPoint))
        /\ Truthy(FilesGet(lookup.loadedVSIX.files, "extension/" \o entryPoint))

\* C21 as stated: the prefixes are tried in the order archive root, namespaced
\* root, out/, ...: when the entry point is cataloged both at the archive root
\* and under the namespaced root, the archive-root content is returned.
C21_ArchiveRootFirst ==
    (lookup.pc = "done" /\ AtRootAndNamespaced)
    => lookup.code = FilesGet(lookup.loadedVSIX.files, LookedUp(lookup.loadedVSIX))

\* C21 amended: the order is namespaced root, archive root, namespaced out/,
\* out/, nested namespaced root, namespaced browser/, browser/; the content of
\* the first of these paths that is cataloged with content is returned: for an
\* entry point both at the archive root and under the namespaced root, the
\* content under the namespaced root.
C21_NamespacedRootFirst ==
    lookup.pc = "done"
    => LET e == LookedUp(lookup.loadedVSIX)
           files == lookup.loadedVSIX.files
           order == <<"extension/" \o e, e, "extension/out/" \o e, "out/" \o e,
                      "extension/extension/" \o e, "extension/browser/" \o e,
                      "browser/" \o e>>
           found == {k \in 1..Len(order) : Truthy(FilesGet(files, order[k]))}
       IN  /\ found # {}
              => lookup.code
                    = FilesGet(files, order[CHOOSE k \in found : \A j \in found : k <= j])
           /\ AtRootAndNamespaced => lookup.code = FilesGet(files, "extension/" \o e)

\* C21 witness: main.js is cataloged at the archive root and under extension/,
\* and the content under extension/ was returned.
C21_Witness ==
    /\ lookup.pc = "done"
    /\ lookup.loadedVSIX.entryPoint = "main.js"
    /\ AtRootAndNamespaced
    /\ lookup.code = "code of extension/main.js"

\* Some cataloged path matches the entry point, in the first pass or the second.
SomePathMatches ==
    LET e == LookedUp(lookup.loadedVSIX)
        files == lookup.loadedVSIX.files
    IN  \E i \in 1..Len(files) :
            \/ files[i].path \in {"extension/" \o e, e, "extension/out/" \o e, "out/" \o e,
                                  "extension/extension/" \o e, "extension/browser/" \o e,
                                  "browser/" \o e}
            \/ Matches(files[i].path, e)

\* C22: getEntryPointCode returns null only when no cataloged path matches the
\* entry point in either pass; whenever a path matches it returns a content of
\* the package, for every file content, the empty string included.
C22_NullOnlyWithoutMatch ==
    lookup.pc = "done"
    => /\ lookup.code = Null <=> ~SomePathMatches
       /\ SomePathMatches
          => \E i \in 1..Len(lookup.loadedVSIX.files) :
                lookup.code = lookup.loadedVSIX.files[i].content

\* C22 witness: the entry point is cataloged under extension/ with the empty
\* string as content, and null was returned.
C22_Witness ==
    /\ lookup.pc = "done"
    /\ lookup.loadedVSIX.entryPoint = "main.js"
    /\ lookup.loadedVSIX.files = <<CatalogedFile("extension/main.js", "")>>
    /\ lookup.code = Null

-----------------------------------------------------------------------------
(* Claims about the registry client                                        *)

\* C23: getDownloadUrl returns the descriptor's own download URL unchanged when
\* there is one, whatever the other fields; otherwise the synthesized URL
\* {base}/{namespace}/{name}/{version}/file/{namespace}.{name}-{version}.vsix
\* when namespace, name and version are all there; otherwise undefined. It
\* changes no state.
C23_DownloadUrl ==
    /\ [](client.pc = "done"
          => LET e == client.extension
             IN  IF Truthy(e.download) THEN client.url = e.download
                 ELSE IF Truthy(e.namespace) /\ Truthy(e.name) /\ Truthy(e.version)
                 THEN client.url
                        = "https://open-vsx.org/api/" \o e.namespace \o "/" \o e.name \o "/"
                            \o e.version \o "/file/" \o e.namespace \o "." \o e.name
                            \o "-" \o e.version \o ".vsix"
                 ELSE client.url = Undef)
    /\ [][client'.pc = "done"
          => /\ client'.extension = client.extension
             /\ UNCHANGED <<loaderVars, adapterVars, githubVars, unpackVars>>]_vars

\* C23 witness: a descriptor with a download URL and with namespace, name and
\* version got its own URL back.
C23_Witness ==
    /\ client.pc = "done"
    /\ client.extension = Ext("pub", "ext", "1.0", "https://cdn/x.vsix")
    /\ client.url = "https://cdn/x.vsix"

-----------------------------------------------------------------------------
(* Claims about the identifier parser                                      *)

\* parse returned the components the identifier was written with.
RecoversWritten ==
    parser.result = Parsed(parser.written.owner, parser.written.repo,
                           parser.written.ref, parser.written.path)

\* C24: for the full URL form parse returns the owner, the repo without .git,
\* the ref that follows /tree/ and the complete path that follows the ref;
\* without /tree/ the first segment after owner/repo is the ref and the
\* remaining segments are the path.
C24_UrlFormComponents ==
    (parser.pc = "done" /\ parser.written.form = "url") => RecoversWritten

\* C24 witness: the URL .../kispace/ext/tree/v1/src/index.ts parsed to the path
\* index.ts.
C24_Witness ==
    /\ parser.pc = "done"
    /\ parser.input = "https://github.com/kispace/ext/tree/v1/src/index.ts"
    /\ parser.result = Parsed("kispace", "ext", "v1", "index.ts")

\* C25: for every short-form input owner/repo, owner/repo@ref and
\* owner/repo@ref/path parse recovers exactly those components, the path with
\* all its segments; for owner/repo, ref and path are absent.
C25_ShortFormComponents ==
    (parser.pc = "done" /\ parser.written.form = "short") => RecoversWritten

\* C25 witness: octocat/hello-world@v2/src/index.ts parsed to its components.
C25_Witness ==
    /\ parser.pc = "done"
    /\ parser.input = "octocat/hello-world@v2/src/index.ts"
    /\ parser.result = Parsed("octocat", "hello-world", "v2", "src/index.ts")

\* C26: toGitHubUrl is the inverse of parse: for every identifier p, with or
\* without ref and path, parse(toGitHubUrl(p)) has the owner, repo, ref and
\* path of p.
C26_RoundTrip ==
    (parser.pc = "done" /\ parser.written.form = "identifier") => RecoversWritten

\* C26 witness: the identifier kispace/ext, ref v1, path src/index.ts came back
\* from toGitHubUrl and parse with the path index.ts.
C26_Witness ==
    /\ parser.pc = "done"
    /\ parser.written = Written("identifier", "", "kispace", "ext", FALSE, FALSE,
                                "v1", "src/index.ts")
    /\ parser.input = "https://github.com/kispace/ext/tree/v1/src/index.ts"
    /\ parser.result.path = "index.ts"

-----------------------------------------------------------------------------
(* More claims about the host API emulator                                 *)

\* C27: openTextDocument and fs.readFile fail with NoWorkspace when there is no
\* active workspace, before any resource lookup; with FileNotFound when there
\* is a workspace and the path is no file; otherwise they succeed. Neither
\* changes the subscription list or the local handler index.
C27_NoWorkspaceThenFileNotFound ==
    /\ [](outcome.op \in {"openTextDocument", "readFile"}
          => LET workspace == outcome.args[1]
                 resource == outcome.args[2]
             IN  /\ workspace = "none"
                    => outcome.err = "NoWorkspace" /\ outcome.log = <<"getWorkspace">>
                 /\ (workspace # "none" /\ resource # "file")
                    => outcome.err = "FileNotFound"
                 /\ (workspace # "none" /\ resource = "file") => outcome.err = "none")
    /\ [][outcome'.op \in {"openTextDocument", "readFile"}
          => UNCHANGED <<subscriptions, commandHandlers>>]_vars

\* C27 witness: readFile of a directory's path failed with FileNotFound while a
\* command is registered and subscribed.
C27_Witness ==
    /\ outcome.op = "readFile"
    /\ outcome.args = <<"workspace", "directory">>
    /\ outcome.err = "FileNotFound"
    /\ subscriptions # <<>>
    /\ DOMAIN commandHandlers # {}

\* The call of an API function that returns a disposable has succeeded.
ReturnsDisposable ==
    /\ outcome'.op \in {"registerCommand", "onDidChangeConfiguration",
                        "onDidChangeActiveTextEditor"}
    /\ outcome'.err = "none"

\* C28: every successful call of registerCommand, onDidChangeConfiguration and
\* onDidChangeActiveTextEditor appends exactly one disposable, the one it
\* returns, to the end of the subscription list, and a failed call appends
\* none: the list holds the disposables made since the emulator's last
\* dispose(), in call order.
C28_AppendsReturnedDisposable ==
    /\ [][/\ ReturnsDisposable
             => /\ Len(disposables') = Len(disposables) + 1
                /\ subscriptions' = subscriptions \o <<Len(disposables')>>
                /\ disposables'[Len(disposables')].kind
                        = IF outcome'.op = "registerCommand" THEN "command" ELSE "listener"
          /\ outcome'.op \notin {"registerCommand", "onDidChangeConfiguration",
                                 "onDidChangeActiveTextEditor", "push", "dispose"}
             => UNCHANGED subscriptions
          /\ (outcome'.op = "registerCommand" /\ outcome'.err # "none")
             => UNCHANGED subscriptions]_vars
    /\ [](\A i \in 1..Len(subscriptions) :
            subscriptions[i] = Len(disposables) - Len(subscriptions) + i)

\* C28 witness: after a dispose() of the emulator, a listener and then a command
\* were subscribed; the list holds the two in call order.
C28_Witness ==
    /\ Len(disposables) = 3
    /\ disposables[1].disposed
    /\ subscriptions = <<2, 3>>
    /\ disposables[2].kind = "listener"
    /\ disposables[3].kind = "command"
    /\ outcome.op = "registerCommand"

\* C29: once a disposable returned by registerCommand has been disposed, a
\* further dispose() on it changes neither the local handler index nor the
\* subscription list nor the command registry, whatever was registered in
\* between.
C29_SecondDisposeChangesNothing ==
    [][\A d \in 1..Len(disposables) :
            (DisposeReturned(d) /\ disposables[d].kind = "command" /\ disposables[d].disposed)
            => UNCHANGED <<commandHandlers, subscriptions, registry>>]_vars

\* C29 witness: a repeated dispose() of a command's disposable took the command
\* id, registered again in between, out of the local handler index.
C29_Witness ==
    /\ outcome.op = "disposable.dispose"
    /\ outcome.args = <<"repeated">>
    /\ outcome.id \in outcome.ids
    /\ outcome.id \notin DOMAIN commandHandlers
    /\ \E d \in 1..Len(disposables) :
            /\ d > outcome.log[1]
            /\ disposables[d].kind = "command"
            /\ disposables[d].commandId = outcome.id
            /\ ~disposables[d].disposed

\* C30: after the emulator's dispose() the local handler index is empty, and
\* every command registered through the emulator is still in the shared command
\* registry, with a handler.
C30_DisposeEmptiesIndexOnly ==
    outcome.op = "dispose"
    => /\ commandHandlers = EmptyMap
       /\ getCommands(commandHandlers) = {}
       /\ \A d \in 1..Len(disposables) :
            disposables[d].kind = "command"
            => /\ RegistryHasCommand(registry, disposables[d].commandId)
               /\ registry[disposables[d].commandId] # <<>>

\* C30 witness: dispose() ran over two commands' disposables; the index is
\* empty and the registry has both commands.
C30_Witness ==
    /\ outcome.op = "dispose"
    /\ Len(outcome.log) >= 2
    /\ \A i \in 1..2 : disposables[outcome.log[i]].kind = "command"
    /\ disposables[outcome.log[1]].commandId # disposables[outcome.log[2]].commandId
    /\ commandHandlers = EmptyMap
    /\ DOMAIN registry = CommandIds

-----------------------------------------------------------------------------
(* Claims about the persistent cache and about overlapping loads           *)

\* The web-compatibility flag one reads off a package: undefined when the
\* object has no such property.
WebFlagOf(loadedVSIX) ==
    IF "isWebExtension" \in DOMAIN loadedVSIX
    THEN IF loadedVSIX.isWebExtension THEN "true" ELSE "false"
    ELSE Undef

\* Two packages agree in everything but the web-compatibility flag.
SameButWebFlag(a, b) ==
    /\ a.manifest = b.manifest
    /\ a.extensionId = b.extensionId
    /\ a.namespace = b.namespace
    /\ a.name = b.name
    /\ a.version = b.version
    /\ a.files = b.files
    /\ a.entryPoint = b.entryPoint

\* The call c is a getCachedVSIX(I, V) that this step answers with a package,
\* while the in-memory repository holds under I the package loaded for
\* version V, which the cache write has stored under (I, V).
ReadsBackLoaded(c) ==
    /\ calls[c].pc = "reading"
    /\ calls'[c].ret = "pkg"
    /\ Has(loadedExtensions, calls[c].reqId)
    /\ LET loaded == loadedExtensions[calls[c].reqId]
       IN  /\ "isWebExtension" \in DOMAIN loaded
           /\ loaded.extensionId = calls[c].reqId
           /\ loaded.version = calls[c].reqVer
           /\ persisted[CacheKey(calls[c].reqId, calls[c].reqVer)] = CacheRecord(loaded)

\* C31: after a successful load of (I, V) with a successful cache write,
\* getCachedVSIX(I, V) returns a package equal to the loaded one in manifest,
\* identifier, namespace, name, version, file mapping, entry point and
\* web-compatibility flag.
C31_CacheRoundTrip ==
    [][\A c \in Calls :
        ReadsBackLoaded(c)
        => /\ SameButWebFlag(calls'[c].pkg, loadedExtensions[calls[c].reqId])
           /\ WebFlagOf(calls'[c].pkg) = WebFlagOf(loadedExtensions[calls[c].reqId])]_vars

\* C31, the part the code keeps: the package read back equals the loaded one in
\* every field but the web-compatibility flag.
C31_RoundTripButWebFlag ==
    [][\A c \in Calls :
        ReadsBackLoaded(c)
        => SameButWebFlag(calls'[c].pkg, loadedExtensions[calls[c].reqId])]_vars

\* C31 witness: getCachedVSIX returned a package without the flag from a record
\* that holds it.
C31_Witness ==
    \E c \in Calls :
        /\ calls[c].op = "getCachedVSIX"
        /\ calls[c].pc = "done"
        /\ calls[c].ret = "pkg"
        /\ LET cached == persisted[CacheKey(calls[c].reqId, calls[c].reqVer)]
           IN  /\ cached.isWebExtension
               /\ SameButWebFlag(calls[c].pkg, cached)
               /\ WebFlagOf(calls[c].pkg) = Undef

\* The calls c and d are the first and the second of an overlap.
Overlap(c, d) == calls[c].role = "first" /\ calls[d].role = "second"

\* C32: loads in flight are not deduplicated. A second loadFromOpenVSX for the
\* same identifier and version that starts while the first is suspended is not
\* served from memory and issues its own download; when both have returned a
\* package the two are distinct instances; and each of them, when it
\* completes, leaves its own instance as the one entry of the identifier, so
\* that the entry is the instance of the call that completed last.
C32_NoDeduplication ==
    /\ [](\A c, d \in Calls :
            Overlap(c, d)
            => /\ calls[d].fetched
               /\ calls[d].pc # "idle"
               /\ (calls[c].ret = "pkg" /\ calls[d].ret = "pkg")
                  => /\ calls[c].pkg.inst # calls[d].pkg.inst
                     /\ Has(loadedExtensions, calls[d].pkg.extensionId)
                     /\ loadedExtensions[calls[d].pkg.extensionId].inst
                            \in {calls[c].pkg.inst, calls[d].pkg.inst})
    /\ [][\A c \in Calls :
            (calls[c].role # "none" /\ calls[c].pc = "cached" /\ calls'[c].pc = "done")
            => loadedExtensions'[calls[c].pkg.extensionId] = calls[c].pkg]_vars

\* C32 witness: both calls of an overlap have returned a package, the second
\* first; memory holds the first call's instance, which completed last.
C32_Witness ==
    \E c, d \in Calls :
        /\ Overlap(c, d)
        /\ calls[c].ret = "pkg" /\ calls[d].ret = "pkg"
        /\ calls[d].pkg.inst < calls[c].pkg.inst
        /\ calls[c].overtaken
        /\ loadedExtensions[calls[c].pkg.extensionId].inst = calls[c].pkg.inst

====
